---- MODULE Spec2Model ----
(***************************************************************************)
(* Rules engine of Spelldawn: game state, delegate dispatch, raid phases.  *)
(* The game state is one record, as in data/src/game.rs (GameState); the   *)
(* engine's free functions are operators from a game record to a game      *)
(* record, composed as the Rust code composes them.                        *)
(***************************************************************************)
EXTENDS Integers, Sequences, FiniteSets, TLC

VARIABLES
    game,       \* the GameState under play
    result,     \* status, side and action of the last handle_game_action call
    before,     \* the GameState as it was when the last action arrived
    flag,       \* a Flag being folded through with_override (SpecFlag)
    flag_init,  \* the bool the flag was created from
    history     \* inputs or outputs of the calls made so far, in call order

vars == <<game, result, before, flag, flag_init, history>>

(***************************************************************************)
(* Bounds of the model.                                                    *)
(***************************************************************************)
MaxOverrides == 5
MaxMoves == 3
MaxDispatches == 2
MaxSwitches == 4
MaxEdits == 4
MaxDefenders == 2
StartActions == 2
RejectActions == 1

Overlord == "Overlord"
Champion == "Champion"
Sides == {Overlord, Champion}

opponent(side) == IF side = Overlord THEN Champion ELSE Overlord

None == [kind |-> "None"]

NoResult == [status |-> "None", side |-> "NoSide", action |-> None]

(***************************************************************************)
(* Flag (data/src/delegates.rs)                                            *)
(***************************************************************************)
FlagDefault(value) == [kind |-> "Default", value |-> value]
FlagOverride(value) == [kind |-> "Override", value |-> value]

FlagNew(value) == FlagDefault(value)

\* Mutant of with_override: true wins over false.
with_override_or(self, value) ==
    IF self.kind = "Default"
    THEN FlagOverride(value)
    ELSE FlagOverride(self.value \/ value)

\* Mutant of with_override: the first override is combined with the default.
with_override_and_default(self, value) ==
    FlagOverride(self.value /\ value)

with_override(self, value) ==
    IF self.kind = "Default"
    THEN FlagOverride(value)
    ELSE FlagOverride(self.value /\ value)

\* impl From<Flag> for bool
flag_to_bool(f) == f.value

(***************************************************************************)
(* Card positions (data/src/card_state.rs)                                 *)
(***************************************************************************)
NoRoom == "NoRoom"
NoLoc == "NoLoc"
NoSide == "NoSide"

DeckUnknown(side) == [kind |-> "DeckUnknown", side |-> side, room |-> NoRoom, loc |-> NoLoc]
DeckTop(side) == [kind |-> "DeckTop", side |-> side, room |-> NoRoom, loc |-> NoLoc]
Hand(side) == [kind |-> "Hand", side |-> side, room |-> NoRoom, loc |-> NoLoc]
Room(room, loc) == [kind |-> "Room", side |-> NoSide, room |-> room, loc |-> loc]
ArenaItem(loc) == [kind |-> "ArenaItem", side |-> NoSide, room |-> NoRoom, loc |-> loc]
DiscardPile(side) == [kind |-> "DiscardPile", side |-> side, room |-> NoRoom, loc |-> NoLoc]
Scored(side) == [kind |-> "Scored", side |-> side, room |-> NoRoom, loc |-> NoLoc]
Identity(side) == [kind |-> "Identity", side |-> side, room |-> NoRoom, loc |-> NoLoc]

in_play(position) == position.kind \in {"Room", "ArenaItem"}
in_hand(position) == position.kind = "Hand"
in_deck(position) == position.kind \in {"DeckUnknown", "DeckTop"}
in_discard_pile(position) == position.kind = "DiscardPile"
in_score_pile(position) == position.kind = "Scored"
\* Mutant of is_room_occupant: any card in the room counts as an occupant.
is_room_occupant_any_location(position, room_id) ==
    position.kind = "Room" /\ position.room = room_id

is_room_occupant(position, room_id) ==
    position.kind = "Room" /\ position.room = room_id /\ position.loc = "Occupant"

CardIdOf(side, index) == [side |-> side, index |-> index]

\* Mutant of CardStateNew: every card is the Overlord's.
CardStateNew_overlord(id, name, is_identity) ==
    [id |-> id,
     name |-> name,
     side |-> Overlord,
     position |-> IF is_identity THEN Identity(id.side) ELSE DeckUnknown(id.side),
     sorting_key |-> 0,
     revealed_to_owner |-> is_identity,
     revealed_to_opponent |-> is_identity]

\* CardState::new
CardStateNew(id, name, is_identity) ==
    [id |-> id,
     name |-> name,
     side |-> id.side,
     position |-> IF is_identity THEN Identity(id.side) ELSE DeckUnknown(id.side),
     sorting_key |-> 0,
     revealed_to_owner |-> is_identity,
     revealed_to_opponent |-> is_identity]

\* Mutant of card_set_revealed_to: both flags are written.
card_set_revealed_to_both(c, side, revealed) ==
    [c EXCEPT !.revealed_to_owner = revealed, !.revealed_to_opponent = revealed]

\* CardState::set_revealed_to
card_set_revealed_to(c, side, revealed) ==
    IF c.id.side = side
    THEN [c EXCEPT !.revealed_to_owner = revealed]
    ELSE [c EXCEPT !.revealed_to_opponent = revealed]

\* CardState::is_revealed_to
is_revealed_to(c, side) ==
    IF c.id.side = side THEN c.revealed_to_owner ELSE c.revealed_to_opponent

(***************************************************************************)
(* GameState accessors (data/src/game.rs). Card vectors are sequences; a   *)
(* CardId's index is zero-based as in the source.                          *)
(***************************************************************************)
cards(g, side) == IF side = Overlord THEN g.overlord_cards ELSE g.champion_cards

card(g, id) == cards(g, id.side)[id.index + 1]

set_card(g, id, c) ==
    IF id.side = Overlord
    THEN [g EXCEPT !.overlord_cards[id.index + 1] = c]
    ELSE [g EXCEPT !.champion_cards[id.index + 1] = c]

player(g, side) == IF side = Overlord THEN g.overlord ELSE g.champion

set_player(g, side, p) ==
    IF side = Overlord THEN [g EXCEPT !.overlord = p] ELSE [g EXCEPT !.champion = p]

\* GameState::all_card_ids: the Overlord's cards, then the Champion's.
all_card_ids(g) ==
    [i \in 1..Len(g.overlord_cards) |-> CardIdOf(Overlord, i - 1)]
    \o [i \in 1..Len(g.champion_cards) |-> CardIdOf(Champion, i - 1)]

all_cards(g) == g.overlord_cards \o g.champion_cards

\* Mutant of move_card: moving a card also drops its delegates from the cache.
move_card_drop_delegates(g, card_id, new_position) ==
    LET key == g.next_sorting_key
        moved == set_card(g, card_id,
                          [card(g, card_id) EXCEPT !.position = new_position,
                                                   !.sorting_key = key])
        lookup == g.delegate_cache.lookup
    IN  [moved EXCEPT !.next_sorting_key = key + 1,
                      !.delegate_cache.lookup =
                          [k \in DOMAIN lookup |->
                              SelectSeq(lookup[k],
                                        LAMBDA c : c.scope.ability_id.card_id # card_id)]]

\* Mutant of move_card: the counter is not advanced.
move_card_no_increment(g, card_id, new_position) ==
    set_card(g, card_id,
             [card(g, card_id) EXCEPT !.position = new_position,
                                      !.sorting_key = g.next_sorting_key])

\* GameState::move_card
\* Mutant of move_card: the moved card is also turned face down.
move_card_face_down(g, card_id, new_position) ==
    LET key == g.next_sorting_key
        moved == set_card(g, card_id,
                          [card(g, card_id) EXCEPT !.position = new_position,
                                                   !.sorting_key = key,
                                                   !.revealed_to_opponent = FALSE])
    IN  [moved EXCEPT !.next_sorting_key = key + 1]

move_card(g, card_id, new_position) ==
    LET key == g.next_sorting_key
        moved == set_card(g, card_id,
                          [card(g, card_id) EXCEPT !.position = new_position,
                                                   !.sorting_key = key])
    IN  [moved EXCEPT !.next_sorting_key = key + 1]

\* GameState::random_card: the cards thread_rng can pick. The choice is made
\* over the cards of both sides, whatever `position` is and whatever the
\* mode of the game; None only when the game has no card.
random_card(g, position) ==
    IF all_card_ids(g) = <<>> THEN {None}
    ELSE {all_card_ids(g)[i] : i \in 1..Len(all_card_ids(g))}

\* The cards of a side that are in an Identity position, in vector order.
Identities(g, side) == SelectSeq(cards(g, side), LAMBDA c : c.position.kind = "Identity")

\* Mutant of identity: more than one Identity card is a panic too.
identity_strict(g, side) ==
    IF Len(Identities(g, side)) # 1
    THEN [status |-> "Panic", card |-> None]
    ELSE [status |-> "Ok", card |-> Head(Identities(g, side))]

\* GameState::identity: the first card of the side's vector in an Identity
\* position; `expect` panics when there is none.
identity(g, side) ==
    IF Identities(g, side) = <<>>
    THEN [status |-> "Panic", card |-> None]
    ELSE [status |-> "Ok", card |-> Head(Identities(g, side))]

\* Mutant of hand: the cards in hand, the latest drawn first.
hand_latest_first(g, side) ==
    SortSeq(SelectSeq(cards(g, side), LAMBDA c : in_hand(c.position)),
            LAMBDA a, b : a.sorting_key > b.sorting_key)

\* GameState::hand / discard_pile: cards of a side in vector order.
hand(g, side) == SelectSeq(cards(g, side), LAMBDA c : in_hand(c.position))
discard_pile(g, side) == SelectSeq(cards(g, side), LAMBDA c : in_discard_pile(c.position))

(***************************************************************************)
(* Game construction (data/src/game.rs, cards/src/decklists.rs)            *)
(***************************************************************************)
PlayerStateDefault == [mana |-> 0, actions |-> 0, score |-> 0, prompt |-> None]

\* Deck: an identity and the card names in the order Deck::card_names yields.
DeckOf(identity_name, names) == [identity |-> identity_name, names |-> names]

\* GameState::make_deck: the identity card takes index 0.
make_deck(deck, side) ==
    [i \in 1..(Len(deck.names) + 1) |->
        IF i = 1
        THEN CardStateNew(CardIdOf(side, 0), deck.identity, TRUE)
        ELSE CardStateNew(CardIdOf(side, i - 1), deck.names[i - 1], FALSE)]

EmptyCache == [lookup |-> <<>>]

\* Mutant of new_game: the update log is always there.
new_game_always_tracked(overlord_deck, champion_deck, enable_animations) ==
    [overlord_cards |-> make_deck(overlord_deck, Overlord),
     champion_cards |-> make_deck(champion_deck, Champion),
     overlord |-> PlayerStateDefault,
     champion |-> PlayerStateDefault,
     data |-> [turn |-> Overlord, turn_number |-> 1, raid |-> None, next_raid_id |-> 1,
               deterministic |-> TRUE],
     updates |-> [some |-> TRUE, log |-> <<>>],
     next_sorting_key |-> 1,
     delegate_cache |-> EmptyCache,
     \* Instrumentation, not part of the Rust struct: a panic raised so far,
     \* the nesting depth of invoke_event, the number of dispatch passes
     \* started, and a log of the passes and delegate visits of this action.
     panic |-> "",
     dispatch_depth |-> 0,
     passes |-> 0,
     trace |-> <<>>]

\* GameState::new_game
new_game(overlord_deck, champion_deck, enable_animations) ==
    [overlord_cards |-> make_deck(overlord_deck, Overlord),
     champion_cards |-> make_deck(champion_deck, Champion),
     overlord |-> PlayerStateDefault,
     champion |-> PlayerStateDefault,
     data |-> [turn |-> Overlord, turn_number |-> 1, raid |-> None, next_raid_id |-> 1,
               deterministic |-> TRUE],
     updates |-> IF enable_animations THEN [some |-> TRUE, log |-> <<>>]
                 ELSE [some |-> FALSE, log |-> <<>>],
     next_sorting_key |-> 1,
     delegate_cache |-> EmptyCache,
     \* Instrumentation, not part of the Rust struct: a panic raised so far,
     \* the nesting depth of invoke_event, the number of dispatch passes
     \* started, and a log of the passes and delegate visits of this action.
     panic |-> "",
     dispatch_depth |-> 0,
     passes |-> 0,
     trace |-> <<>>]

(***************************************************************************)
(* Card catalogue (rules/src/rules.rs, cards/src/minions.rs). A delegate   *)
(* carries the names of its requirement and of its mutation or             *)
(* transformation; the functions themselves are the operators              *)
(* `requirement`, `mutation` and `transformation` below.                   *)
(***************************************************************************)
Some(v) == [kind |-> "Some", v |-> v]
unwrap_or(option, default) == IF option.kind = "Some" THEN option.v ELSE default

is_inner_room(room_id) == room_id \in {"Vault", "Sanctum", "Crypts"}

AbilityIdOf(card_id, index) == [card_id |-> card_id, index |-> index]
ScopeNew(ability_id) == [ability_id |-> ability_id]
scope_card_id(scope) == scope.ability_id.card_id
scope_side(scope) == scope.ability_id.card_id.side

EventDelegate(kind, req, mut) == [kind |-> kind, requirement |-> req, fn |-> mut]
QueryDelegate(kind, req, transform) == [kind |-> kind, requirement |-> req, fn |-> transform]
DelegateContext(delegate, scope) == [delegate |-> delegate, scope |-> scope]

CardStats(health, base_attack) == [health |-> health, base_attack |-> base_attack]
CardDefinitionOf(name, cost, card_type, side, abilities, stats) ==
    [name |-> name, cost |-> cost, card_type |-> card_type, side |-> side,
     abilities |-> abilities, stats |-> stats]

\* card_helpers: a combat ability fires for the minion that owns it.
combat(mut) == EventDelegate("MinionCombatAbility", "this_card", mut)
on_calculate_health(transform) == QueryDelegate("HealthValue", "this_card", transform)
on_play(mut) == EventDelegate("CastCard", "this_card_played", mut)
abilities_end_raid == <<combat("end_raid_failure")>>
abilities_combat_deal_damage == <<combat("deal_damage_1")>>

MinionNames == {"IceDragon", "ShadowLurker", "SphinxOfWintersBreath", "BridgeTroll"}

minions(name) ==
    CASE name = "IceDragon" ->
            CardDefinitionOf(name, Some(3), "Minion", Overlord,
                <<abilities_combat_deal_damage, abilities_end_raid>>, CardStats(Some(5), None))
      [] name = "ShadowLurker" ->
            CardDefinitionOf(name, Some(3), "Minion", Overlord,
                <<<<on_calculate_health("shadow_lurker_health")>>, abilities_end_raid>>,
                CardStats(Some(2), None))
      [] name = "SphinxOfWintersBreath" ->
            CardDefinitionOf(name, Some(2), "Minion", Overlord,
                <<<<combat("deal_damage_1"),
                    EventDelegate("DealtDamage", "sphinx_odd_cost_discarded", "end_raid_failure")>>>>,
                CardStats(Some(3), None))
      [] name = "BridgeTroll" ->
            CardDefinitionOf(name, Some(2), "Minion", Overlord,
                <<<<combat("bridge_troll_combat")>>>>, CardStats(Some(0), None))

arcane_recovery ==
    CardDefinitionOf("ArcaneRecovery", Some(5), "Spell", Champion,
        <<<<on_play("gain_mana_9")>>>>, CardStats(None, None))

\* Test catalogue: the cards the integration tests play, and cards whose
\* delegates exercise the dispatcher on turn events.
test_cards(name) ==
    CASE name = "TestOverlordIdentity" ->
            CardDefinitionOf(name, None, "Identity", Overlord, <<>>, CardStats(None, None))
      [] name = "TestChampionIdentity" ->
            CardDefinitionOf(name, None, "Identity", Champion, <<>>, CardStats(None, None))
      [] name = "TestMinionEndRaid" ->
            CardDefinitionOf(name, Some(3), "Minion", Overlord, <<abilities_end_raid>>,
                CardStats(Some(5), None))
      [] name = "TestScheme31" ->
            CardDefinitionOf(name, None, "Scheme", Overlord, <<>>, CardStats(None, None))
      [] name = "TestWeapon3Attack12Boost3Cost" ->
            CardDefinitionOf(name, Some(3), "Weapon", Champion, <<>>, CardStats(None, Some(3)))
      [] name = "TestDawnBounty" ->
            CardDefinitionOf(name, Some(1), "Project", Overlord,
                <<<<EventDelegate("Dawn", "always", "champion_gain_2")>>>>,
                CardStats(None, None))
      [] name = "TestDawnTax" ->
            CardDefinitionOf(name, Some(1), "Project", Overlord,
                <<<<EventDelegate("Dawn", "champion_mana_at_least_3", "champion_lose_upto_3")>>,
                  <<QueryDelegate("HealthValue", "always", "add_one")>>>>,
                CardStats(None, None))
      [] name = "TestDawnEcho" ->
            CardDefinitionOf(name, Some(1), "Artifact", Champion,
                <<<<EventDelegate("Dawn", "always", "invoke_dusk")>>,
                  <<QueryDelegate("HealthValue", "champion_mana_at_least_3", "double")>>>>,
                CardStats(None, None))
      [] name = "TestDuskShade" ->
            CardDefinitionOf(name, Some(1), "Artifact", Champion,
                <<<<EventDelegate("Dusk", "in_hand", "discard_this_card"),
                    EventDelegate("RaidEnd", "always", "log_raid_end")>>>>,
                CardStats(None, None))
      [] name = "TestRaidWard" ->
            CardDefinitionOf(name, Some(1), "Project", Overlord,
                <<<<QueryDelegate("CanInitiateRaid", "in_hand", "forbid")>>>>,
                CardStats(None, None))
      [] name = "TestSanctumSight" ->
            CardDefinitionOf(name, Some(1), "Artifact", Champion,
                <<<<QueryDelegate("SanctumAccessCount", "in_play", "add_one")>>>>,
                CardStats(None, None))
      [] name = "TestVaultSight" ->
            CardDefinitionOf(name, Some(1), "Artifact", Champion,
                <<<<QueryDelegate("VaultAccessCount", "in_play", "add_one")>>>>,
                CardStats(None, None))

\* rules::get
get(name) ==
    IF name \in MinionNames THEN minions(name)
    ELSE IF name = "ArcaneRecovery" THEN arcane_recovery
    ELSE test_cards(name)

\* rules::card_definition
card_definition(g, card_id) == get(card(g, card_id).name)

\* queries::stats
stats(g, card_id) == get(card(g, card_id).name).stats

(***************************************************************************)
(* Delegate cache (data/src/delegates.rs) and its construction.            *)
(***************************************************************************)
\* Card names in lexicographic order.
NameOrder ==
    <<"ArcaneRecovery", "BridgeTroll", "IceDragon", "ShadowLurker", "SphinxOfWintersBreath",
      "TestChampionIdentity", "TestDawnBounty", "TestDawnEcho", "TestDawnTax", "TestDuskShade",
      "TestMinionEndRaid", "TestOverlordIdentity", "TestRaidWard", "TestSanctumSight",
      "TestScheme31",
      "TestVaultSight", "TestWeapon3Attack12Boost3Cost">>

name_rank(name) == CHOOSE i \in 1..Len(NameOrder) : NameOrder[i] = name

RECURSIVE Flatten(_)
Flatten(seqs) == IF seqs = <<>> THEN <<>> ELSE Head(seqs) \o Flatten(Tail(seqs))

\* Mutant of delegate_count: the last delegate of a kind is not counted.
delegate_count_short(cache, kind) ==
    IF kind \in DOMAIN cache.lookup /\ Len(cache.lookup[kind]) > 0
    THEN Len(cache.lookup[kind]) - 1
    ELSE 0

\* DelegateCache::delegate_count
delegate_count(cache, kind) ==
    IF kind \in DOMAIN cache.lookup THEN Len(cache.lookup[kind]) ELSE 0

\* Mutant of DelegateCache::get: the list is indexed from its end.
cache_get_reversed(cache, kind, index) ==
    cache.lookup[kind][Len(cache.lookup[kind]) - index]

\* DelegateCache::get
cache_get(cache, kind, index) == cache.lookup[kind][index + 1]

\* The cache order of two cards: the Overlord's before the Champion's, then
\* by name, then by index.
card_precedes(g, a, b) ==
    IF a.side # b.side THEN a.side = Overlord
    ELSE IF card(g, a).name # card(g, b).name
         THEN name_rank(card(g, a).name) < name_rank(card(g, b).name)
         ELSE a.index < b.index

contexts_for_card(g, card_id) ==
    LET abilities == card_definition(g, card_id).abilities
    IN  Flatten([a \in 1..Len(abilities) |->
            [d \in 1..Len(abilities[a]) |->
                DelegateContext(abilities[a][d], ScopeNew(AbilityIdOf(card_id, a - 1)))]])

\* dispatch::populate_delegate_cache
populate_delegate_cache(g) ==
    LET ids == SortSeq(all_card_ids(g), LAMBDA a, b : card_precedes(g, a, b))
        contexts == Flatten([i \in 1..Len(ids) |-> contexts_for_card(g, ids[i])])
        kinds == {contexts[i].delegate.kind : i \in 1..Len(contexts)}
    IN  [g EXCEPT !.delegate_cache =
            [lookup |-> [k \in kinds |-> SelectSeq(contexts, LAMBDA c : c.delegate.kind = k)]]]

(***************************************************************************)
(* Dispatcher (rules::dispatch) and the mutation primitives the card       *)
(* abilities call (rules::mutations, rules::mana). Mutations that fire     *)
(* events and the dispatcher are mutually recursive.                       *)
(***************************************************************************)
\* The game state without the instrumentation a dispatch pass writes.
snapshot(g) == [g EXCEPT !.trace = <<>>, !.passes = 0, !.dispatch_depth = 0]

clear_trace(g) == [g EXCEPT !.trace = <<>>, !.passes = 0]

push_update(g, update) ==
    IF g.updates.some THEN [g EXCEPT !.updates.log = Append(@, update)] ELSE g

\* mana::get
mana_get(g, side) == player(g, side).mana

\* mana::gain
gain_mana(g, side, amount) ==
    set_player(g, side, [player(g, side) EXCEPT !.mana = @ + amount])

\* mana::lose_upto: clamps at zero.
lose_upto(g, side, amount) ==
    set_player(g, side,
        [player(g, side) EXCEPT !.mana = IF @ >= amount THEN @ - amount ELSE 0])

\* mutations::spend_mana: the caller has checked that the mana is there.
spend_mana(g, side, amount) ==
    IF player(g, side).mana < amount
    THEN [g EXCEPT !.panic = "spend_mana"]
    ELSE set_player(g, side, [player(g, side) EXCEPT !.mana = @ - amount])

\* mutations::spend_action_points
spend_action_points(g, side, amount) ==
    IF player(g, side).actions < amount
    THEN [g EXCEPT !.panic = "spend_action_points"]
    ELSE set_player(g, side, [player(g, side) EXCEPT !.actions = @ - amount])

\* mutations::set_revealed_to
set_revealed_to(g, card_id, side, revealed) ==
    set_card(g, card_id, card_set_revealed_to(card(g, card_id), side, revealed))

\* mutations::set_prompt / clear_prompt
set_prompt(g, side, prompt) == set_player(g, side, [player(g, side) EXCEPT !.prompt = prompt])
clear_prompt(g, side) == set_prompt(g, side, None)

\* Event payloads.
RaidEnded_failure(raid_id, outcome) == [raid_id |-> raid_id, outcome |-> "Failure"]
RaidEnded_success(raid_id, outcome) == [raid_id |-> raid_id, outcome |-> "Success"]
RaidEnded(raid_id, outcome) == [raid_id |-> raid_id, outcome |-> outcome]
DealtDamage(source, amount, discarded) ==
    [source |-> source, amount |-> amount, discarded |-> discarded]

RECURSIVE perform_query(_, _, _, _)
RECURSIVE invoke_event(_, _, _)

\* queries::mana_cost
mana_cost(g, card_id) == perform_query(g, "ManaCost", card_id, card_definition(g, card_id).cost)

\* RequirementFn, by name.
requirement(g, scope, data, req) ==
    CASE req = "always" -> TRUE
      [] req = "this_card" -> data = scope_card_id(scope)
      [] req = "this_card_played" -> data.card_id = scope_card_id(scope)
      [] req = "in_hand" -> in_hand(card(g, scope_card_id(scope)).position)
      [] req = "in_play" -> in_play(card(g, scope_card_id(scope)).position)
      [] req = "champion_mana_at_least_3" -> mana_get(g, Champion) >= 3
      [] req = "sphinx_odd_cost_discarded" ->
            /\ scope.ability_id = data.source
            /\ \E i \in 1..Len(data.discarded) :
                    unwrap_or(mana_cost(g, data.discarded[i]), 0) % 2 # 0

\* TransformationFn, by name.
transformation(g, scope, data, current, transform) ==
    CASE transform = "shadow_lurker_health" ->
            LET position == card(g, scope_card_id(scope)).position
            IN  IF position.kind = "Room" /\ ~is_inner_room(position.room)
                THEN current + 2
                ELSE current
      [] transform = "add_one" -> current + 1
      [] transform = "double" -> current * 2
      [] transform = "forbid" -> with_override(current, FALSE)

RECURSIVE query_from(_, _, _, _, _, _)
query_from(g, kind, data, i, count, current) ==
    IF i >= count THEN current
    ELSE LET context == cache_get(g.delegate_cache, kind, i)
             next == IF requirement(g, context.scope, data, context.delegate.requirement)
                     THEN transformation(g, context.scope, data, current, context.delegate.fn)
                     ELSE current
         IN  query_from(g, kind, data, i + 1, count, next)

\* dispatch::perform_query
perform_query(g, kind, data, initial) ==
    query_from(g, kind, data, 0, delegate_count(g.delegate_cache, kind), initial)

\* Mutant of queries::health: the printed health, no delegate consulted.
health_printed(g, card_id) == unwrap_or(stats(g, card_id).health, 0)

\* queries::health
health(g, card_id) ==
    perform_query(g, "HealthValue", card_id, unwrap_or(stats(g, card_id).health, 0))

\* Mutant of attack: the printed attack is counted twice.
attack_doubled(g, card_id) ==
    perform_query(g, "AttackValue", card_id, 2 * unwrap_or(stats(g, card_id).base_attack, 0))

\* queries::attack
attack(g, card_id) ==
    perform_query(g, "AttackValue", card_id, unwrap_or(stats(g, card_id).base_attack, 0))

\* mutations::move_card
mutations_move_card(g, card_id, new_position) == move_card(g, card_id, new_position)

RECURSIVE discard_cards(_, _)
discard_cards(g, ids) ==
    IF ids = <<>> THEN g
    ELSE discard_cards(mutations_move_card(g, Head(ids), DiscardPile(Head(ids).side)), Tail(ids))

\* mutations::deal_damage: the Champion discards `amount` cards, the first in
\* hand order when the game is deterministic, and the DealtDamage event fires.
deal_damage(g, scope, amount) ==
    LET in_hand_ids == [i \in 1..Len(hand(g, Champion)) |-> hand(g, Champion)[i].id]
        count == IF Len(in_hand_ids) < amount THEN Len(in_hand_ids) ELSE amount
        discarded == SubSeq(in_hand_ids, 1, count)
    IN  invoke_event(discard_cards(g, discarded), "DealtDamage",
                     DealtDamage(scope.ability_id, amount, discarded))

\* queries::start_of_turn_action_count
start_of_turn_action_count(g, side) == 3

\* The turn and its number change hands: a new Overlord turn has the next
\* number, the Champion's turn that follows it keeps that number.
begin_turn(g, new_turn) ==
    [g EXCEPT !.data.turn = new_turn,
              !.data.turn_number = IF new_turn = Overlord THEN @ + 1 ELSE @]

\* Dusk for the Overlord's new turn, Dawn for the Champion's, with the
\* number of the turn.
turn_event(g) ==
    invoke_event(g, IF g.data.turn = Overlord THEN "Dusk" ELSE "Dawn", g.data.turn_number)

grant_turn_actions(g) ==
    set_player(g, g.data.turn,
        [player(g, g.data.turn) EXCEPT !.actions = start_of_turn_action_count(g, g.data.turn)])

\* Mutant of start_turn: the side whose turn it is stays the same.
start_turn_no_handover(g, new_turn) ==
    push_update(grant_turn_actions(turn_event(g)), <<"StartTurn", new_turn>>)

\* The start of `new_turn`'s turn: the turn record, then the Dusk or Dawn
\* event, then the action points, then the StartTurn update.
\* Mutant of start_turn: the action points are granted before the event.
start_turn_actions_first(g, new_turn) ==
    push_update(turn_event(grant_turn_actions(begin_turn(g, new_turn))),
                <<"StartTurn", new_turn>>)

start_turn(g, new_turn) ==
    push_update(grant_turn_actions(turn_event(begin_turn(g, new_turn))),
                <<"StartTurn", new_turn>>)

\* mutations::check_end_turn: the turn passes when the player whose turn it
\* is has no action point left and no raid is going on.
check_end_turn(g) ==
    IF player(g, g.data.turn).actions = 0 /\ g.data.raid = None
    THEN start_turn(g, opponent(g.data.turn))
    ELSE g

\* The raid is removed and its end logged.
remove_raid(g, outcome) == push_update([g EXCEPT !.data.raid = None], <<"EndRaid", outcome>>)

\* mutations::end_raid: the RaidEnd event fires, then the raid is removed and
\* the turn passes if the Champion has no action point left.
end_raid(g, outcome) ==
    IF g.data.raid = None
    THEN [g EXCEPT !.panic = "end_raid"]
    ELSE check_end_turn(
            remove_raid(invoke_event(g, "RaidEnd", RaidEnded(g.data.raid.raid_id, outcome)),
                        outcome))

\* MutationFn, by name.
mutation(g, scope, data, mut) ==
    CASE mut = "deal_damage_1" -> deal_damage(g, scope, 1)
      [] mut = "end_raid_failure" -> end_raid(g, "Failure")
      [] mut = "bridge_troll_combat" ->
            LET lost == lose_upto(g, Champion, 3)
            IN  IF mana_get(lost, Champion) <= 6 THEN end_raid(lost, "Failure") ELSE lost
      [] mut = "gain_mana_9" -> gain_mana(g, scope_side(scope), 9)
      [] mut = "champion_gain_2" -> gain_mana(g, Champion, 2)
      [] mut = "log_raid_end" -> push_update(g, <<"RaidEndSeen", data.outcome>>)
      [] mut = "champion_lose_upto_3" -> lose_upto(g, Champion, 3)
      [] mut = "invoke_dusk" -> invoke_event(g, "Dusk", data)
      [] mut = "discard_this_card" ->
            mutations_move_card(g, scope_card_id(scope), DiscardPile(scope_side(scope)))

PassRecord(pass, depth, kind, data, count, pre) ==
    [type |-> "pass", pass |-> pass, depth |-> depth, kind |-> kind, data |-> data,
     index |-> count, context |-> None, ran |-> FALSE, pre |-> pre, post |-> pre]

VisitRecord(pass, depth, kind, data, index, context, ran, pre, post) ==
    [type |-> "visit", pass |-> pass, depth |-> depth, kind |-> kind, data |-> data,
     index |-> index, context |-> context, ran |-> ran, pre |-> pre, post |-> post]

RECURSIVE invoke_from(_, _, _, _, _, _)
invoke_from(g, kind, data, i, count, pass) ==
    IF i >= count \/ g.panic # "" THEN g
    ELSE IF i >= Len(g.delegate_cache.lookup[kind])
    THEN [g EXCEPT !.panic = "Delegate"]
    ELSE LET context == cache_get(g.delegate_cache, kind, i)
             runs == requirement(g, context.scope, data, context.delegate.requirement)
             after == IF runs
                      THEN mutation(g, context.scope, data, context.delegate.fn)
                      ELSE g
             visit == VisitRecord(pass, g.dispatch_depth, kind, data, i, context, runs,
                                  snapshot(g), snapshot(after))
         IN  invoke_from([after EXCEPT !.trace = Append(@, visit)],
                         kind, data, i + 1, count, pass)

\* dispatch::invoke_event
invoke_event(g, kind, data) ==
    LET count == delegate_count(g.delegate_cache, kind)
        pass == g.passes + 1
        depth == g.dispatch_depth + 1
        started == [g EXCEPT !.passes = pass, !.dispatch_depth = depth,
                             !.trace = Append(@, PassRecord(pass, depth, kind, data, count,
                                                            snapshot(g)))]
        finished == invoke_from(started, kind, data, 0, count, pass)
    IN  [finished EXCEPT !.dispatch_depth = depth - 1]

(***************************************************************************)
(* Raid state and the queries the raid reads (data/src/game.rs,            *)
(* rules::queries, rules::flags).                                          *)
(***************************************************************************)
Activation == [kind |-> "Activation"]
Encounter(defender_index) == [kind |-> "Encounter", index |-> defender_index]
Continue(defender_index) == [kind |-> "Continue", index |-> defender_index]
Access == [kind |-> "Access"]

RaidStateNew(raid_id, target, phase) ==
    [raid_id |-> raid_id, target |-> target, phase |-> phase, room_active |-> FALSE,
     accessed |-> <<>>]

\* Prompt responses and the basic actions.
ActivateRoomAction(choice) == [kind |-> "ActivateRoomAction", choice |-> choice]
UseWeaponAbility(weapon_id, defender_id) ==
    [kind |-> "EncounterAction", choice |-> "UseWeaponAbility", source |-> weapon_id,
     target |-> defender_id]
NoWeapon == [kind |-> "EncounterAction", choice |-> "NoWeapon"]
ContinueAction(choice) == [kind |-> "ContinueAction", choice |-> choice]
RaidScoreCard(card_id) == [kind |-> "RaidScoreCard", card_id |-> card_id]
RaidDestroyCard(card_id) == [kind |-> "RaidDestroyCard", card_id |-> card_id]
EndRaid == [kind |-> "EndRaid"]
InitiateRaidAction(room_id) == [kind |-> "InitiateRaid", room_id |-> room_id]

Prompt(context, responses) == [context |-> context, responses |-> responses]

ids_of(card_states) == [i \in 1..Len(card_states) |-> card_states[i].id]

Take(seq, count) == SubSeq(seq, 1, IF Len(seq) < count THEN Len(seq) ELSE count)

\* GameState::defender_list: the defenders of a room, the most recently
\* placed first.
defender_list(g, room_id) ==
    SortSeq(SelectSeq(g.overlord_cards, LAMBDA c : c.position = Room(room_id, "Defender")),
            LAMBDA a, b : a.sorting_key > b.sorting_key)

\* GameState::occupants
occupants(g, room_id) ==
    SortSeq(SelectSeq(all_cards(g), LAMBDA c : is_room_occupant(c.position, room_id)),
            LAMBDA a, b : a.sorting_key < b.sorting_key)

\* GameState::card_list_for_position
card_list_for_position(g, side, position) ==
    SortSeq(SelectSeq(cards(g, side), LAMBDA c : c.position = position),
            LAMBDA a, b : a.sorting_key < b.sorting_key)

\* GameState::weapons
weapons(g) ==
    SelectSeq(g.champion_cards,
              LAMBDA c : in_play(c.position) /\ get(c.name).card_type = "Weapon")

\* queries::vault_access_count, queries::sanctum_access_count
vault_access_count(g) == perform_query(g, "VaultAccessCount", g.data.raid.raid_id, 1)
sanctum_access_count(g) == perform_query(g, "SanctumAccessCount", g.data.raid.raid_id, 1)

\* A test weapon adds 2 attack per boost, each boost costing 1 mana.
boosts_for(missing) == IF missing <= 0 THEN 0 ELSE (missing + 1) \div 2

boosts_to_defeat(g, weapon_id, defender_id) ==
    boosts_for(health(g, defender_id) - attack(g, weapon_id))

\* queries::cost_to_defeat_target
cost_to_defeat_target(g, weapon_id, defender_id) == boosts_to_defeat(g, weapon_id, defender_id)

\* flags::can_defeat_target
can_defeat_target(g, weapon_id, defender_id) ==
    flag_to_bool(perform_query(g, "CanDefeatTarget",
        [source |-> weapon_id, target |-> defender_id],
        FlagNew(cost_to_defeat_target(g, weapon_id, defender_id) <= mana_get(g, Champion))))

\* flags::can_score_card
can_score_card(g, side, card_id) ==
    /\ g.data.raid # None
    /\ \E i \in 1..Len(g.data.raid.accessed) : g.data.raid.accessed[i] = card_id
    /\ ~in_score_pile(card(g, card_id).position)

\* flags::can_destroy_accessed_card
can_destroy_accessed_card(g, card_id) ==
    /\ g.data.raid # None
    /\ in_play(card(g, card_id).position)

RECURSIVE place_cards(_, _)
\* Moves each card of a sequence of [id, position] placements, in order.
place_cards(g, placements) ==
    IF placements = <<>> THEN g
    ELSE place_cards(move_card(g, Head(placements).id, Head(placements).position),
                     Tail(placements))

RECURSIVE reveal_all(_, _, _)
reveal_all(g, ids, side) ==
    IF ids = <<>> THEN g
    ELSE reveal_all(set_revealed_to(g, Head(ids), side, TRUE), Tail(ids), side)

\* The cards of `ids` put on top of the deck, the first of them topmost.
place_on_deck_top(g, side, ids) ==
    place_cards(g, [i \in 1..Len(ids) |->
                        [id |-> ids[Len(ids) + 1 - i], position |-> DeckTop(side)]])

\* mutations::realize_top_of_deck: the top `count` cards of a deck. Cards
\* already placed on top come first, the latest placed topmost; a
\* deterministic game then takes unknown deck cards in vector order and
\* puts them on top of the deck below the cards that were there.
realize_top_of_deck(g, side, count) ==
    LET known == ids_of(SortSeq(SelectSeq(cards(g, side),
                                          LAMBDA c : c.position = DeckTop(side)),
                                LAMBDA a, b : a.sorting_key > b.sorting_key))
        unknown == ids_of(SelectSeq(cards(g, side),
                                    LAMBDA c : c.position = DeckUnknown(side)))
    IN  IF Len(known) >= count
        THEN [game |-> g, ids |-> Take(known, count)]
        ELSE [game |-> place_on_deck_top(g, side, known \o Take(unknown, count - Len(known))),
              ids |-> known \o Take(unknown, count - Len(known))]

(***************************************************************************)
(* Raid phases (rules/src/raid_phases.rs).                                 *)
(***************************************************************************)
has_defender(g, room_id, index) == index >= 0 /\ index < Len(defender_list(g, room_id))

\* Mutant of find_defender: the defenders are counted from the oldest.
find_defender_oldest_first(g, room_id, index) ==
    defender_list(g, room_id)[Len(defender_list(g, room_id)) - index].id

\* find_defender
find_defender(g, room_id, index) == defender_list(g, room_id)[index + 1].id

\* Mutant of can_reveal_card: the cost is not compared with the mana held.
can_reveal_card_any_cost(g, defender_id, cost) ==
    /\ g.data.raid.room_active
    /\ ~is_revealed_to(card(g, defender_id), Champion)
    /\ cost.kind = "Some"

\* Mutant of can_reveal_card: the room need not have been activated.
can_reveal_card_inactive(g, defender_id, cost) ==
    /\ ~is_revealed_to(card(g, defender_id), Champion)
    /\ cost.kind = "Some"
    /\ cost.v <= player(g, Overlord).mana

\* Mutant of can_reveal_card: a face-up defender can be revealed again.
can_reveal_card_again(g, defender_id, cost) ==
    /\ cost.kind = "Some"
    /\ cost.v <= player(g, Overlord).mana

\* can_reveal_defender
can_reveal_card(g, defender_id, cost) ==
    /\ g.data.raid.room_active
    /\ ~is_revealed_to(card(g, defender_id), Champion)
    /\ cost.kind = "Some"
    /\ cost.v <= player(g, Overlord).mana

can_reveal_defender(g, defender_index) ==
    can_reveal_card(g, find_defender(g, g.data.raid.target, defender_index),
                    mana_cost(g, find_defender(g, g.data.raid.target, defender_index)))

\* Mutant of reveal_accessed: the accessed cards stay as they were.
reveal_accessed_none(chosen) == [game |-> chosen.game, accessed |-> chosen.ids]

\* accessed_cards: the cards accessed in the target room, each revealed to
\* the Champion.
reveal_accessed(chosen) ==
    [game |-> reveal_all(chosen.game, chosen.ids, Champion), accessed |-> chosen.ids]

\* Mutant of cards_in_target: the Crypts yield the whole discard pile.
cards_in_target_whole_crypts(g, target) ==
    CASE target = "Vault" ->
            realize_top_of_deck(g, Overlord, vault_access_count(g))
      [] target = "Sanctum" ->
            [game |-> g,
             ids |-> Take(ids_of(hand(g, Overlord)), sanctum_access_count(g))]
      [] target = "Crypts" ->
            [game |-> g,
             ids |-> ids_of(card_list_for_position(g, Overlord, DiscardPile(Overlord)))]
      [] OTHER -> [game |-> g, ids |-> ids_of(occupants(g, target))]

\* accessed_cards, match on target
\* Mutant of cards_in_target: the Vault yields one card whatever the count.
cards_in_target_vault_one(g, target) ==
    CASE target = "Vault" ->
            realize_top_of_deck(g, Overlord, 1)
      [] target = "Sanctum" ->
            [game |-> g,
             ids |-> Take(ids_of(hand(g, Overlord)), sanctum_access_count(g))]
      [] target = "Crypts" ->
            [game |-> g,
             ids |-> ids_of(SelectSeq(
                        card_list_for_position(g, Overlord, DiscardPile(Overlord)),
                        LAMBDA c : ~is_revealed_to(c, Champion)))]
      [] OTHER -> [game |-> g, ids |-> ids_of(occupants(g, target))]

cards_in_target(g, target) ==
    CASE target = "Vault" ->
            realize_top_of_deck(g, Overlord, vault_access_count(g))
      [] target = "Sanctum" ->
            [game |-> g,
             ids |-> Take(ids_of(hand(g, Overlord)), sanctum_access_count(g))]
      [] target = "Crypts" ->
            [game |-> g,
             ids |-> ids_of(SelectSeq(
                        card_list_for_position(g, Overlord, DiscardPile(Overlord)),
                        LAMBDA c : ~is_revealed_to(c, Champion)))]
      [] OTHER -> [game |-> g, ids |-> ids_of(occupants(g, target))]

accessed_cards(g) == reveal_accessed(cards_in_target(g, g.data.raid.target))

\* build_activation_prompt
build_activation_prompt ==
    Prompt("ActivateRoom", <<ActivateRoomAction("Activate"), ActivateRoomAction("Pass")>>)

\* build_encounter_prompt
weapon_responses(usable, defender_id) ==
    Prompt("None",
           [i \in 1..Len(usable) |-> UseWeaponAbility(usable[i].id, defender_id)]
           \o <<NoWeapon>>)

encounter_prompt_for(g, defender_id) ==
    weapon_responses(SelectSeq(weapons(g), LAMBDA w : can_defeat_target(g, w.id, defender_id)),
                     defender_id)

\* Mutant of build_encounter_prompt: every weapon in play is offered.
build_encounter_prompt_every_weapon(g, defender) ==
    weapon_responses(weapons(g), find_defender(g, g.data.raid.target, defender))

build_encounter_prompt(g, defender) ==
    encounter_prompt_for(g, find_defender(g, g.data.raid.target, defender))

\* Mutant of build_continue_prompt: the Champion can only advance.
build_continue_prompt_advance_only == Prompt("RaidAdvance", <<ContinueAction("Advance")>>)

\* build_continue_prompt
build_continue_prompt ==
    Prompt("RaidAdvance", <<ContinueAction("Advance"), ContinueAction("Retreat")>>)

\* access_prompt_for_card
access_prompt_for(g, card_id, definition) ==
    IF definition.card_type = "Scheme" /\ can_score_card(g, Champion, card_id)
    THEN <<RaidScoreCard(card_id)>>
    ELSE IF definition.card_type \in {"Project", "Upgrade"}
            /\ can_destroy_accessed_card(g, card_id)
    THEN <<RaidDestroyCard(card_id)>>
    ELSE <<>>

\* Mutant of access_prompt_for_card: a scheme is offered for scoring whether
\* or not it can still be scored.
access_prompt_for_card_any_scheme(g, card_id) ==
    IF card_definition(g, card_id).card_type = "Scheme"
    THEN <<RaidScoreCard(card_id)>>
    ELSE access_prompt_for(g, card_id, card_definition(g, card_id))

access_prompt_for_card(g, card_id) ==
    access_prompt_for(g, card_id, card_definition(g, card_id))

\* Mutant of build_access_prompt: EndRaid is offered only when no card can
\* be scored or destroyed.
build_access_prompt_end_if_empty(g) ==
    Prompt("None",
           IF \A i \in 1..Len(g.data.raid.accessed) :
                    access_prompt_for_card(g, g.data.raid.accessed[i]) = <<>>
           THEN <<EndRaid>>
           ELSE Flatten([i \in 1..Len(g.data.raid.accessed) |->
                            access_prompt_for_card(g, g.data.raid.accessed[i])]))

\* build_access_prompt
build_access_prompt(g) ==
    Prompt("None",
           Flatten([i \in 1..Len(g.data.raid.accessed) |->
                        access_prompt_for_card(g, g.data.raid.accessed[i])])
           \o <<EndRaid>>)

\* The prompt of a phase, whoever receives it.
prompt_for_phase(g, phase) ==
    CASE phase.kind = "Activation" -> build_activation_prompt
      [] phase.kind = "Encounter" -> build_encounter_prompt(g, phase.index)
      [] phase.kind = "Continue" -> build_continue_prompt
      [] phase.kind = "Access" -> build_access_prompt(g)

\* Mutant of set_raid_prompt: the Champion is prompted in every phase.
set_raid_prompt_champion(g) ==
    set_prompt(g, Champion, prompt_for_phase(g, g.data.raid.phase))

\* Mutant of set_raid_prompt: the Overlord is prompted in every phase.
set_raid_prompt_overlord(g) ==
    set_prompt(g, Overlord, prompt_for_phase(g, g.data.raid.phase))

\* Mutant of set_raid_prompt: the Access prompt is built from a freshly
\* computed accessed list, which replaces the stored one.
set_raid_prompt_resampled(g) ==
    IF g.data.raid.phase.kind = "Access"
    THEN LET found == accessed_cards(g)
             sampled == [found.game EXCEPT !.data.raid.accessed = found.accessed]
         IN  set_prompt(sampled, Champion, build_access_prompt(sampled))
    ELSE set_prompt(g, IF g.data.raid.phase.kind = "Activation" THEN Overlord ELSE Champion,
                    prompt_for_phase(g, g.data.raid.phase))

\* set_raid_prompt
set_raid_prompt(g) ==
    set_prompt(g, IF g.data.raid.phase.kind = "Activation" THEN Overlord ELSE Champion,
               prompt_for_phase(g, g.data.raid.phase))

\* Mutant of reveal_defender: the defender is turned face up for free.
reveal_defender_free(g, defender_id) == set_revealed_to(g, defender_id, Champion, TRUE)

\* on_enter_raid_phase, Encounter arm body
reveal_defender(g, defender_id) ==
    set_revealed_to(spend_mana(g, Overlord, mana_cost(g, defender_id).v),
                    defender_id, Champion, TRUE)

store_accessed(found) == [found.game EXCEPT !.data.raid.accessed = found.accessed]

phase_updates(g, phase) ==
    CASE phase.kind = "Activation" -> g
      [] phase.kind = "Encounter" ->
            IF can_reveal_defender(g, phase.index)
            THEN reveal_defender(g, find_defender(g, g.data.raid.target, phase.index))
            ELSE g
      [] phase.kind = "Continue" -> g
      [] phase.kind = "Access" -> store_accessed(accessed_cards(g))

\* Mutant of on_enter_raid_phase: a missing defender is no panic and the
\* Champion is prompted for the encounter all the same.
on_enter_raid_phase_prompt_anyway(g) ==
    IF /\ g.data.raid.phase.kind = "Encounter"
       /\ ~has_defender(g, g.data.raid.target, g.data.raid.phase.index)
    THEN set_prompt(g, Champion, Prompt(None, <<NoWeapon>>))
    ELSE set_raid_prompt(phase_updates(g, g.data.raid.phase))

\* on_enter_raid_phase: can_reveal_defender panics ("Defender") when the
\* index of the Encounter phase names no defender, before any prompt is set.
on_enter_raid_phase(g) ==
    IF /\ g.data.raid.phase.kind = "Encounter"
       /\ ~has_defender(g, g.data.raid.target, g.data.raid.phase.index)
    THEN [g EXCEPT !.panic = "Defender Not Found"]
    ELSE set_raid_prompt(phase_updates(g, g.data.raid.phase))

\* Mutant of set_raid_phase: every encounter is entered at defender 0.
set_raid_phase_first_defender(g, phase) ==
    IF g.data.raid = None THEN [g EXCEPT !.panic = "raid"]
    ELSE on_enter_raid_phase(
            [g EXCEPT !.data.raid.phase =
                IF phase.kind = "Encounter" THEN Encounter(0) ELSE phase])

\* Mutant of set_raid_phase: a raid that should wait in a Continue phase is
\* sent back to Activation.
set_raid_phase_reactivating(g, phase) ==
    IF g.data.raid = None THEN [g EXCEPT !.panic = "raid"]
    ELSE on_enter_raid_phase(
            [g EXCEPT !.data.raid.phase =
                IF phase.kind = "Continue" THEN Activation ELSE phase])

\* set_raid_phase
set_raid_phase(g, phase) ==
    IF g.data.raid = None THEN [g EXCEPT !.panic = "raid"]
    ELSE on_enter_raid_phase([g EXCEPT !.data.raid.phase = phase])

(***************************************************************************)
(* Action handlers (rules::actions): the entry point and the raid          *)
(* actions.                                                                *)
(***************************************************************************)
scheme_points(name) == IF name = "TestScheme31" THEN 1 ELSE 0

least(indices) ==
    IF indices = {} THEN None
    ELSE Some(CHOOSE i \in indices : \A j \in indices : i <= j)

\* The first defender at or after index `from` that is face up, or that the
\* Overlord can turn face up, if any.
next_encounter(g, from) ==
    least({i \in from..(Len(defender_list(g, g.data.raid.target)) - 1) :
            \/ is_revealed_to(card(g, find_defender(g, g.data.raid.target, i)), Champion)
            \/ can_reveal_defender(g, i)})

encounter_or_access(next) == IF next = None THEN Access ELSE Encounter(next.v)

enter_next_encounter(g, from) ==
    set_raid_phase(g, encounter_or_access(next_encounter(g, from)))

after_encounter(g, index) ==
    set_raid_phase(g, IF next_encounter(g, index + 1) = None THEN Access ELSE Continue(index))

\* flags::can_initiate_raid
can_initiate_raid(g, side, room_id) ==
    flag_to_bool(perform_query(g, "CanInitiateRaid", side,
        FlagNew(/\ side = Champion
                /\ g.data.turn = side
                /\ g.data.raid = None
                /\ player(g, side).actions > 0
                /\ (is_inner_room(room_id) \/ occupants(g, room_id) # <<>>))))

\* initiate_raid_action: the raid opens with the Activation prompt when its
\* first defender is face down.
begin_raid(g, room_id) ==
    invoke_event(push_update([g EXCEPT !.data.raid =
                                    RaidStateNew(g.data.next_raid_id, room_id, Activation),
                                !.data.next_raid_id = @ + 1],
                             <<"InitiateRaid", room_id>>),
                 "RaidBegin", g.data.next_raid_id)

first_phase(g) ==
    IF /\ defender_list(g, g.data.raid.target) # <<>>
       /\ ~is_revealed_to(defender_list(g, g.data.raid.target)[1], Champion)
    THEN set_raid_phase(g, Activation)
    ELSE enter_next_encounter(g, 0)

initiate_raid_action(g, side, room_id) ==
    first_phase(begin_raid(spend_action_points(g, side, 1), room_id))

\* activate_room_action
activate_room_action(g, choice) ==
    enter_next_encounter([g EXCEPT !.data.raid.room_active = (choice = "Activate")], 0)

\* encounter_action
after_combat(g, index) == IF g.data.raid = None THEN g ELSE after_encounter(g, index)

encounter_action(g, action) ==
    IF action.choice = "UseWeaponAbility"
    THEN after_encounter(
            invoke_event(spend_mana(g, Champion,
                                    cost_to_defeat_target(g, action.source, action.target)),
                         "MinionDefeated", action.target),
            g.data.raid.phase.index)
    ELSE after_combat(
            invoke_event(g, "MinionCombatAbility",
                         find_defender(g, g.data.raid.target, g.data.raid.phase.index)),
            g.data.raid.phase.index)

\* continue_action
continue_action(g, choice) ==
    IF choice = "Advance"
    THEN enter_next_encounter(g, g.data.raid.phase.index + 1)
    ELSE end_raid(g, "Failure")

\* score_card_action
add_score(g, side, points) ==
    set_player(g, side, [player(g, side) EXCEPT !.score = @ + points])

score_card_action(g, card_id) ==
    set_raid_prompt(
        push_update(
            invoke_event(add_score(mutations_move_card(g, card_id, Scored(Champion)),
                                   Champion, scheme_points(card(g, card_id).name)),
                         "ChampionScoreCard", card_id),
            <<"ScoreCard", card_id>>))

has_response(g, side, action) ==
    /\ player(g, side).prompt # None
    /\ \E i \in 1..Len(player(g, side).prompt.responses) :
            player(g, side).prompt.responses[i] = action

\* handle_prompt_action
respond_to_prompt(g, action) ==
    CASE action.kind = "ActivateRoomAction" -> activate_room_action(g, action.choice)
      [] action.kind = "EncounterAction" -> encounter_action(g, action)
      [] action.kind = "ContinueAction" -> continue_action(g, action.choice)
      [] action.kind = "RaidScoreCard" -> score_card_action(g, action.card_id)
      [] action.kind = "EndRaid" -> end_raid(g, "Success")

handle_prompt_action(g, side, action) == respond_to_prompt(clear_prompt(g, side), action)

\* The dispatch records of one call, reduced to the raid each delegate saw.
summarize(g) ==
    [g EXCEPT !.trace = [i \in 1..Len(g.trace) |->
        [type |-> g.trace[i].type, pass |-> g.trace[i].pass, depth |-> g.trace[i].depth,
         kind |-> g.trace[i].kind, data |-> g.trace[i].data, ran |-> g.trace[i].ran,
         raid_before |-> g.trace[i].pre.data.raid,
         raid_after |-> g.trace[i].post.data.raid]]]

is_legal(g, side, action) ==
    IF action.kind = "InitiateRaid"
    THEN can_initiate_raid(g, side, action.room_id)
    ELSE has_response(g, side, action)

apply_action(g, side, action) ==
    IF action.kind = "InitiateRaid"
    THEN initiate_raid_action(g, side, action.room_id)
    ELSE handle_prompt_action(g, side, action)

action_result(g) == [game |-> g, status |-> IF g.panic # "" THEN "Panic" ELSE "Ok"]

\* handle_game_action: an illegal action is an error and the game is the one
\* the caller passed in.
handle_game_action(g, side, action) ==
    IF ~is_legal(g, side, action)
    THEN [game |-> g, status |-> "Err"]
    ELSE action_result(summarize(apply_action(clear_trace(g), side, action)))

(***************************************************************************)
(* Spec: raids on boards laid out by move_card, the Champion to act.       *)
(***************************************************************************)
RaidOverlordDeck ==
    <<"TestMinionEndRaid", "ShadowLurker", "SphinxOfWintersBreath", "TestScheme31",
      "TestScheme31", "TestRaidWard", "TestScheme31", "BridgeTroll", "IceDragon">>
RaidChampionDeck ==
    <<"TestWeapon3Attack12Boost3Cost", "ArcaneRecovery", "TestDuskShade", "TestVaultSight",
      "TestSanctumSight">>

MinionIndices == {1, 2, 3}
DefenderRooms == {"Vault", "RoomA", "RoomB"}
RaidRooms == {"Vault", "Sanctum", "Crypts", "RoomA", "RoomB"}

\* At most MaxDefenders distinct minions, in the order they are played.
DefenderOrders ==
    {q \in UNION {[1..n -> MinionIndices] : n \in 0..MaxDefenders} :
        \A i, j \in 1..Len(q) : i # j => q[i] # q[j]}

\* Mana of the Overlord and of the Champion, the Champion's action points and
\* where Arcane Recovery is.
Funds(overlord, champion, actions, recovery) ==
    [overlord |-> overlord, champion |-> champion, actions |-> actions, recovery |-> recovery]

\* Funds, with where the Champion's Vault Sight and Sanctum Sight and the
\* Overlord's Raid Ward are.
Layout(funds, sight, ward) ==
    [overlord |-> funds.overlord, champion |-> funds.champion, actions |-> funds.actions,
     recovery |-> funds.recovery, sight |-> sight, ward |-> ward]

RaidFunds ==
    {Layout(funds, ArenaItem("Artifacts"), Room("RoomA", "Occupant")) :
        funds \in {Funds(9, 9, StartActions, Hand(Champion)),
                   Funds(2, 9, StartActions, Hand(Champion)),
                   Funds(9, 1, StartActions, Hand(Champion))}}
    \cup {Layout(Funds(9, 9, StartActions, DeckUnknown(Champion)),
                 DeckUnknown(Champion), Room("RoomA", "Occupant"))}

raid_board(defenders, room_id, revealed, funds, enable_animations) ==
    LET fresh == new_game(DeckOf("TestOverlordIdentity", RaidOverlordDeck),
                          DeckOf("TestChampionIdentity", RaidChampionDeck), enable_animations)
        fixed == <<[id |-> CardIdOf(Overlord, 4), position |-> Room("RoomA", "Occupant")],
                   [id |-> CardIdOf(Overlord, 5), position |-> DeckTop(Overlord)],
                   [id |-> CardIdOf(Champion, 1), position |-> ArenaItem("Weapons")],
                   [id |-> CardIdOf(Champion, 2), position |-> funds.recovery],
                   [id |-> CardIdOf(Champion, 3), position |-> ArenaItem("Artifacts")],
                   [id |-> CardIdOf(Champion, 4), position |-> funds.sight],
                   [id |-> CardIdOf(Champion, 5), position |-> funds.sight],
                   [id |-> CardIdOf(Overlord, 6), position |-> funds.ward],
                   [id |-> CardIdOf(Overlord, 7), position |-> DiscardPile(Overlord)],
                   [id |-> CardIdOf(Overlord, 8), position |-> DiscardPile(Overlord)]>>
        played == [i \in 1..Len(defenders) |->
                    [id |-> CardIdOf(Overlord, defenders[i]),
                     position |-> Room(room_id, "Defender")]]
        held == SelectSeq([i \in 1..3 |-> [id |-> CardIdOf(Overlord, i),
                                            position |-> Hand(Overlord)]],
                          LAMBDA h : \A i \in 1..Len(defenders) : defenders[i] # h.id.index)
        placed == place_cards(fresh, fixed \o held \o played)
        shown == reveal_all(placed,
                            <<CardIdOf(Overlord, 8)>>
                            \o (IF revealed THEN [i \in 1..Len(played) |-> played[i].id]
                                ELSE <<>>),
                            Champion)
        funded == [shown EXCEPT !.overlord.mana = funds.overlord,
                                !.champion.mana = funds.champion,
                                !.champion.actions = funds.actions,
                                !.data.turn = Champion]
    IN  populate_delegate_cache(funded)

\* The raid boards keep an update log.
raid_game(defenders, room_id, revealed, funds) ==
    raid_board(defenders, room_id, revealed, funds, TRUE)

Init ==
    /\ \E defenders \in DefenderOrders, room_id \in DefenderRooms, revealed \in BOOLEAN,
          funds \in RaidFunds :
            game = raid_game(defenders, room_id, revealed, funds)
    /\ before = game
    /\ result = NoResult
    /\ flag_init = FALSE
    /\ flag = FlagNew(FALSE)
    /\ history = <<>>

PhaseOf(g) == IF g.data.raid = None THEN [kind |-> "Ended"] ELSE g.data.raid.phase

\* `history` keeps the accepted actions of the latest raid with the phase
\* each one led to.
extend_history(log, action, status, phase) ==
    IF status # "Ok" THEN log
    ELSE IF action.kind = "InitiateRaid" THEN <<[action |-> action, phase |-> phase]>>
    ELSE Append(log, [action |-> action, phase |-> phase])

Respond(outcome, side, action) ==
    /\ game' = outcome.game
    /\ before' = game
    /\ result' = [status |-> outcome.status, side |-> side, action |-> action]
    /\ history' = extend_history(history, action, outcome.status, PhaseOf(outcome.game))

\* One call of handle_game_action.
Handle(side, action) == Respond(handle_game_action(game, side, action), side, action)

\* A call that is not rejected. A rejected call returns before it changes
\* anything, so in Spec it is a step that is not enabled; SpecReject below
\* takes the rejected calls as steps.
Accept(side, action) ==
    /\ is_legal(game, side, action)
    /\ Handle(side, action)
    /\ UNCHANGED <<flag, flag_init>>

SchemeIds ==
    {game.overlord_cards[i].id : i \in {k \in 1..Len(game.overlord_cards) :
                                        get(game.overlord_cards[k].name).card_type = "Scheme"}}

WeaponRequests ==
    {UseWeaponAbility(game.champion_cards[i].id, game.overlord_cards[j].id) :
        i \in 1..Len(game.champion_cards), j \in 1..Len(game.overlord_cards)}

InitiateRaid ==
    \E side \in Sides, room_id \in RaidRooms :
        /\ game.data.raid = None
        /\ Accept(side, InitiateRaidAction(room_id))

ActivateRoom ==
    \E side \in Sides, choice \in {"Activate", "Pass"} :
        /\ game.data.raid # None
        /\ Accept(side, ActivateRoomAction(choice))

EncounterMinion ==
    \E side \in Sides, action \in {NoWeapon} \cup WeaponRequests :
        /\ game.data.raid # None
        /\ Accept(side, action)

ContinueRaid ==
    \E side \in Sides, choice \in {"Advance", "Retreat"} :
        /\ game.data.raid # None
        /\ Accept(side, ContinueAction(choice))

ScoreAccessedCard ==
    \E side \in Sides, card_id \in SchemeIds :
        /\ game.data.raid # None
        /\ Accept(side, RaidScoreCard(card_id))

EndRaidFromAccess ==
    \E side \in Sides :
        /\ game.data.raid # None
        /\ Accept(side, EndRaid)

Next ==
    \/ InitiateRaid
    \/ ActivateRoom
    \/ EncounterMinion
    \/ ContinueRaid
    \/ ScoreAccessedCard
    \/ EndRaidFromAccess

Spec == Init /\ [][Next]_vars

(***************************************************************************)
(* SpecReject: every request a client can send, the rejected ones          *)
(* included, on boards with face-down defenders in the outer rooms and     *)
(* both players rich.                                                      *)
(***************************************************************************)
Requests ==
    {InitiateRaidAction(room_id) : room_id \in RaidRooms}
    \cup {ActivateRoomAction(choice) : choice \in {"Activate", "Pass"}}
    \cup {NoWeapon}
    \cup {action \in WeaponRequests : has_response(game, Champion, action)}
    \cup {ContinueAction(choice) : choice \in {"Advance", "Retreat"}}
    \cup {RaidScoreCard(card_id) : card_id \in SchemeIds}
    \cup {EndRaid}

\* No defender, one, and two in either order of age.
RejectDefenders == {<<>>, <<1>>, <<3>>, <<1, 2>>, <<2, 1>>, <<3, 1>>}

InitReject ==
    /\ \E defenders \in RejectDefenders,
          room_id \in {"RoomA", "RoomB"},
          ward \in {Hand(Overlord), Room("RoomA", "Occupant")} :
            game = raid_game(defenders, room_id, FALSE,
                             Layout(Funds(9, 9, RejectActions, Hand(Champion)),
                                    ArenaItem("Artifacts"), ward))
    /\ before = game
    /\ result = NoResult
    /\ flag_init = FALSE
    /\ flag = FlagNew(FALSE)
    /\ history = <<>>

HandleGameAction ==
    \E side \in Sides, action \in Requests :
        /\ Handle(side, action)
        /\ UNCHANGED <<flag, flag_init>>

SpecReject == InitReject /\ [][HandleGameAction]_vars

(***************************************************************************)
(* SpecAdd: raids with Overlord turns between them, in which the Overlord  *)
(* plays one more minion in front of a room. The Overlord's turn is        *)
(* reduced to that one card: the minion enters face down through           *)
(* move_card. The Champion may end a turn with action points left, and     *)
(* the turns of one behaviour together hold the StartActions action points *)
(* of its first state.                                                     *)
(***************************************************************************)
MaxTurns == 2
AddRooms == {"RoomA"}

PlayCardAction(card_id, room_id) ==
    [kind |-> "PlayCard", card_id |-> card_id, room_id |-> room_id]

\* play_card_action for a minion: it becomes the front defender of the room.
play_card_action(g, card_id, room_id) == move_card(g, card_id, Room(room_id, "Defender"))

\* The Champion's next turn begins.
start_champion_turn(g) ==
    [g EXCEPT !.data.turn = Champion, !.data.turn_number = @ + 1]

InitAdd ==
    /\ \E defenders \in {q \in DefenderOrders : Len(q) <= 1}, room_id \in AddRooms :
            game = raid_game(defenders, room_id, FALSE,
                             Layout(Funds(9, 9, StartActions, Hand(Champion)),
                                    ArenaItem("Artifacts"), Room("RoomA", "Occupant")))
    /\ before = game
    /\ result = NoResult
    /\ flag_init = FALSE
    /\ flag = FlagNew(FALSE)
    /\ history = <<>>

OverlordPlaysDefender ==
    \E index \in MinionIndices, room_id \in AddRooms :
        /\ game.data.raid = None
        /\ game.data.turn_number < MaxTurns
        /\ in_hand(card(game, CardIdOf(Overlord, index)).position)
        /\ game' = start_champion_turn(
                        play_card_action(clear_trace(game), CardIdOf(Overlord, index), room_id))
        /\ before' = game
        /\ result' = [status |-> "Ok", side |-> Overlord,
                      action |-> PlayCardAction(CardIdOf(Overlord, index), room_id)]
        /\ UNCHANGED <<history, flag, flag_init>>

NextAdd == Next \/ OverlordPlaysDefender

SpecAdd == InitAdd /\ [][NextAdd]_vars

(***************************************************************************)
(* SpecMana: raids on a room the Bridge Troll defends, with every amount   *)
(* of mana from nothing to MaxOverlordMana in the Overlord's pool and to   *)
(* MaxMana in the Champion's.                                              *)
(***************************************************************************)
MaxMana == 10
MaxOverlordMana == 3

\* The Bridge Troll is card 8 of the Overlord's deck.
ManaDefenders == {<<8>>, <<8, 1>>, <<1, 8>>}

InitMana ==
    /\ \E defenders \in ManaDefenders, revealed \in BOOLEAN,
          overlord \in 0..MaxOverlordMana, champion \in 0..MaxMana :
            game = raid_game(defenders, "RoomA", revealed,
                             Layout(Funds(overlord, champion, StartActions, Hand(Champion)),
                                    ArenaItem("Artifacts"), Room("RoomA", "Occupant")))
    /\ before = game
    /\ result = NoResult
    /\ flag_init = FALSE
    /\ flag = FlagNew(FALSE)
    /\ history = <<>>

SpecMana == InitMana /\ [][Next]_vars

(***************************************************************************)
(* Properties of raids.                                                    *)
(***************************************************************************)
RaidDefenders == defender_list(game, game.data.raid.target)

Encounters == SelectSeq(history, LAMBDA h : h.phase.kind = "Encounter")
Continues == SelectSeq(history, LAMBDA h : h.phase.kind = "Continue")

\* The accepted actions of the raid are its start, the Overlord activating
\* the room, the Champion defeating a defender with a weapon and advancing;
\* every defender of the room is face up.
Uninterrupted ==
    /\ \A i \in 1..Len(history) :
        \/ history[i].action.kind = "InitiateRaid"
        \/ history[i].action = ActivateRoomAction("Activate")
        \/ history[i].action = ContinueAction("Advance")
        \/ /\ history[i].action.kind = "EncounterAction"
           /\ history[i].action.choice = "UseWeaponAbility"
    /\ \A i \in 1..Len(RaidDefenders) : is_revealed_to(RaidDefenders[i], Champion)

\* C1: a raid with k defenders, every defender revealed and defeated and the
\* Champion always advancing, enters Encounter(0), Encounter(1), ... in that
\* order, each at most once, and is in Access exactly after k encounters
\* joined by k - 1 Continue phases; with no defender the first phase of the
\* raid is Access.
RaidSequencing ==
    (game.data.raid # None /\ Uninterrupted) =>
        LET k == Len(RaidDefenders)
        IN  /\ Len(Encounters) <= k
            /\ \A i \in 1..Len(Encounters) : Encounters[i].phase = Encounter(i - 1)
            /\ \A i \in 1..Len(Continues) : Continues[i].phase = Continue(i - 1)
            /\ game.data.raid.phase = Access =>
                /\ Len(Encounters) = k
                /\ Len(Continues) = IF k = 0 THEN 0 ELSE k - 1
            /\ k = 0 => /\ Len(history) = 1
                        /\ history[1].action.kind = "InitiateRaid"
                        /\ history[1].phase = Access

RaidReachedAccessAfterTwo ==
    /\ game.data.raid # None
    /\ Uninterrupted
    /\ game.data.raid.phase = Access
    /\ Len(RaidDefenders) = 2
    /\ Len(Encounters) = 2
    /\ Len(Continues) = 1

\* C2: while a raid is active exactly one side holds a prompt with at least
\* one response and the other side holds none: the Overlord in Activation,
\* with the responses Activate and Pass, and the Champion in Encounter,
\* Continue and Access.
OnePromptHolder ==
    game.data.raid # None =>
        LET holder == IF game.data.raid.phase.kind = "Activation" THEN Overlord ELSE Champion
        IN  /\ player(game, holder).prompt # None
            /\ Len(player(game, holder).prompt.responses) > 0
            /\ player(game, opponent(holder)).prompt = None
            /\ game.data.raid.phase.kind = "Activation" =>
                player(game, Overlord).prompt.responses
                    = <<ActivateRoomAction("Activate"), ActivateRoomAction("Pass")>>

OverlordPromptedInActivation ==
    /\ game.data.raid # None
    /\ game.data.raid.phase = Activation
    /\ player(game, Overlord).prompt # None
    /\ player(game, Champion).prompt = None

\* The RaidEnd dispatches recorded by the last action.
RaidEndPasses ==
    {i \in 1..Len(game.trace) : game.trace[i].type = "pass" /\ game.trace[i].kind = "RaidEnd"}

RaidJustEnded ==
    /\ result.status = "Ok"
    /\ before.data.raid # None
    /\ game.data.raid = None

\* C3: when an action ends the raid (Retreat, EndRaid from Access, or the
\* combat ability of a defender), a RaidEnd event was dispatched once with the
\* raid id and the outcome, Success for EndRaid and Failure otherwise, the
\* raid was present when the dispatch began, and it was present before and
\* after every RaidEnd delegate that was visited.
RaidEndObservesRaid ==
    RaidJustEnded =>
        /\ Cardinality(RaidEndPasses) = 1
        /\ \A i \in RaidEndPasses :
            /\ game.trace[i].data =
                [raid_id |-> before.data.raid.raid_id,
                 outcome |-> IF result.action = EndRaid THEN "Success" ELSE "Failure"]
            /\ game.trace[i].raid_before # None
            /\ game.trace[i].raid_before.raid_id = before.data.raid.raid_id
            /\ \E j \in 1..Len(game.trace) :
                /\ game.trace[j].type = "visit"
                /\ game.trace[j].pass = game.trace[i].pass
                /\ game.trace[j].ran
            /\ \A j \in 1..Len(game.trace) :
                (game.trace[j].type = "visit" /\ game.trace[j].pass = game.trace[i].pass) =>
                    /\ game.trace[j].raid_before # None
                    /\ game.trace[j].raid_after # None

\* The ability of a defender ended the raid from inside two other dispatches.
RaidEndedByDefenderAbility ==
    /\ RaidJustEnded
    /\ result.action = NoWeapon
    /\ \E i \in RaidEndPasses : game.trace[i].depth = 3

\* A card of `g` at the occupant location of the room.
HasOccupant(g, room_id) ==
    \E i \in 1..Len(all_cards(g)) :
        /\ all_cards(g)[i].position.kind = "Room"
        /\ all_cards(g)[i].position.room = room_id
        /\ all_cards(g)[i].position.loc = "Occupant"

HasDefender(g, room_id) ==
    \E i \in 1..Len(all_cards(g)) :
        /\ all_cards(g)[i].position.kind = "Room"
        /\ all_cards(g)[i].position.room = room_id
        /\ all_cards(g)[i].position.loc = "Defender"

RaidOnEmptyOuterRoom ==
    /\ result.action.kind = "InitiateRaid"
    /\ result.action.room_id \notin {"Vault", "Sanctum", "Crypts"}
    /\ ~HasOccupant(before, result.action.room_id)

WaitingSide(g) == IF g.data.raid.phase.kind = "Activation" THEN Champion ELSE Overlord

RaidWardInHand(g) == in_hand(card(g, CardIdOf(Overlord, 6)).position)

\* C11: handle_game_action rejects a prompt action sent by the side that is
\* waiting in the current raid phase (the Champion in Activation, the Overlord
\* in Encounter, Continue and Access), and rejects an InitiateRaid whose
\* CanInitiateRaid flag resolves to false, whether the rules or a delegate
\* made it false.
WrongSideOrDeniedRejected ==
    /\ (/\ before.data.raid # None
        /\ result.action.kind \notin {"None", "InitiateRaid"}
        /\ result.side = WaitingSide(before)) => result.status = "Err"
    /\ (/\ result.action.kind = "InitiateRaid"
        /\ \/ result.side # Champion
           \/ before.data.turn # result.side
           \/ before.data.raid # None
           \/ player(before, result.side).actions = 0
           \/ RaidWardInHand(before)) => result.status = "Err"

OverlordRejectedDuringEncounter ==
    /\ before.data.raid # None
    /\ before.data.raid.phase.kind = "Encounter"
    /\ result.side = Overlord
    /\ result.action = NoWeapon
    /\ has_response(before, Champion, result.action)
    /\ result.status = "Err"
    /\ game = before

RaidDeniedByWard ==
    /\ result.action.kind = "InitiateRaid"
    /\ result.side = Champion
    /\ before.data.raid = None
    /\ before.champion.actions > 0
    /\ HasOccupant(before, result.action.room_id)
    /\ RaidWardInHand(before)
    /\ result.status = "Err"

\* The responses an accessed card earns: Score for a scheme not yet scored,
\* Destroy for a project or upgrade in play.
EligibleResponses(g, card_id) ==
    IF /\ get(card(g, card_id).name).card_type = "Scheme"
       /\ ~in_score_pile(card(g, card_id).position)
    THEN <<RaidScoreCard(card_id)>>
    ELSE IF /\ get(card(g, card_id).name).card_type \in {"Project", "Upgrade"}
            /\ in_play(card(g, card_id).position)
    THEN <<RaidDestroyCard(card_id)>>
    ELSE <<>>

\* C12: a raid on a room without defenders is in Access from its first state
\* on, the Overlord holds no prompt in it, and the Champion's prompt lists
\* one Score or Destroy response for each eligible accessed card, in access
\* order, followed by a single EndRaid, also when no card is eligible.
UndefendedRaidGoesToAccess ==
    (game.data.raid # None /\ ~HasDefender(game, game.data.raid.target)) =>
        /\ game.data.raid.phase = Access
        /\ game.overlord.prompt = None
        /\ game.champion.prompt # None
        /\ game.champion.prompt.responses =
                Flatten([i \in 1..Len(game.data.raid.accessed) |->
                            EligibleResponses(game, game.data.raid.accessed[i])])
                \o <<EndRaid>>
        /\ \A i \in 1..Len(history) : history[i].action.kind # "ActivateRoomAction"

UndefendedRaidOffersScoreAndDestroy ==
    /\ result.action.kind = "InitiateRaid"
    /\ result.status = "Ok"
    /\ ~HasDefender(before, result.action.room_id)
    /\ game.data.raid.phase = Access
    /\ Len(game.champion.prompt.responses) = 3
    /\ game.champion.prompt.responses[1].kind = "RaidScoreCard"
    /\ game.champion.prompt.responses[2].kind = "RaidDestroyCard"
    /\ game.champion.prompt.responses[3] = EndRaid

UndefendedRaidOffersOnlyEndRaid ==
    /\ result.action.kind = "InitiateRaid"
    /\ result.status = "Ok"
    /\ ~HasDefender(before, result.action.room_id)
    /\ game.data.raid.accessed # <<>>
    /\ game.champion.prompt.responses = <<EndRaid>>

\* The latest call put the raid into an Encounter phase it was not in.
EnteredEncounter ==
    /\ result.status = "Ok"
    /\ game.data.raid # None
    /\ game.data.raid.phase.kind = "Encounter"
    /\ (before.data.raid = None \/ before.data.raid.phase # game.data.raid.phase)

\* The defender of the Encounter phase the game is in, as it was before the
\* call.
EncounteredBefore ==
    card(before, find_defender(game, game.data.raid.target, game.data.raid.phase.index))

FaceDownAndAffordable ==
    /\ ~is_revealed_to(EncounteredBefore, Champion)
    /\ get(EncounteredBefore.name).cost.kind = "Some"
    /\ get(EncounteredBefore.name).cost.v <= before.overlord.mana

WeaponUsed ==
    /\ result.status = "Ok"
    /\ result.action.kind = "EncounterAction"
    /\ result.action.choice = "UseWeaponAbility"

\* Mana the test weapon needs against a defender: 1 for each boost of 2
\* attack that its printed attack is short of the defender's health.
WeaponUseCost(g, weapon_id, defender_id) ==
    LET missing == health(g, defender_id) - unwrap_or(get(card(g, weapon_id).name).stats.base_attack, 0)
    IN  IF missing <= 0 THEN 0 ELSE (missing + 1) \div 2

\* Defenders behind index n that are face up or that the Overlord can turn
\* face up.
DefendersLeft(g, n) ==
    {i \in (n + 1)..(Len(defender_list(g, g.data.raid.target)) - 1) :
        \/ is_revealed_to(defender_list(g, g.data.raid.target)[i + 1], Champion)
        \/ /\ g.data.raid.room_active
           /\ get(defender_list(g, g.data.raid.target)[i + 1].name).cost.v <= g.overlord.mana}

Dispatched(kind, data) ==
    \E i \in 1..Len(game.trace) :
        /\ game.trace[i].type = "pass"
        /\ game.trace[i].kind = kind
        /\ game.trace[i].data = data

\* C14: when the Champion uses a weapon on the face-up defender of
\* Encounter(n), the defender is defeated (MinionDefeated is dispatched for
\* it and its combat ability is not), the raid goes to Continue(n) if a
\* defender is left to encounter and to Access otherwise, and the Champion's
\* mana drops by exactly the cost of the weapon use; the Overlord's mana is
\* unchanged.
WeaponDefeatsDefender ==
    WeaponUsed =>
        /\ before.data.raid.phase.kind = "Encounter"
        /\ result.action.target =
                find_defender(before, before.data.raid.target, before.data.raid.phase.index)
        /\ is_revealed_to(card(before, result.action.target), Champion)
        /\ Dispatched("MinionDefeated", result.action.target)
        /\ ~Dispatched("MinionCombatAbility", result.action.target)
        /\ game.data.raid # None
        /\ game.data.raid.phase =
                IF DefendersLeft(before, before.data.raid.phase.index) # {}
                THEN Continue(before.data.raid.phase.index)
                ELSE Access
        /\ game.champion.mana =
                before.champion.mana
                - WeaponUseCost(before, result.action.source, result.action.target)
        /\ game.overlord.mana = before.overlord.mana

WeaponUsedWithDefenderLeft ==
    /\ WeaponUsed
    /\ game.data.raid.phase = Continue(0)
    /\ game.champion.mana = before.champion.mana - 1

WeaponUsedOnLastDefender ==
    /\ WeaponUsed
    /\ before.data.raid.phase = Encounter(1)
    /\ game.data.raid.phase = Access
    /\ game.champion.mana = before.champion.mana

\* The card has a combat ability that ends the raid.
EndsRaidInCombat(name) ==
    \E i \in 1..Len(get(name).abilities) :
        \E j \in 1..Len(get(name).abilities[i]) :
            get(name).abilities[i][j] = combat("end_raid_failure")

\* The latest call was an accepted NoWeapon against a defender whose combat
\* ability ends the raid.
FacedEndRaidDefender ==
    /\ result.status = "Ok"
    /\ result.action = NoWeapon
    /\ before.data.raid # None
    /\ before.data.raid.phase.kind = "Encounter"
    /\ EndsRaidInCombat(
            card(before, find_defender(before, before.data.raid.target,
                                       before.data.raid.phase.index)).name)

RevealedToChampion(g) ==
    {all_card_ids(g)[i] : i \in {k \in 1..Len(all_card_ids(g)) :
                                    is_revealed_to(card(g, all_card_ids(g)[k]), Champion)}}

\* C15: when the Champion chooses no weapon against a face-up defender whose
\* combat ability ends the raid, the ability fires and the raid ends in
\* failure: the RaidState is gone, the raid never was in Access, no card
\* became revealed to the Champion, neither player's mana changed, the
\* Champion's action points are unchanged and the turn stays with the
\* Champion if action points remain.
CombatAbilityEndsRaid ==
    FacedEndRaidDefender =>
        /\ is_revealed_to(card(before, find_defender(before, before.data.raid.target,
                                                     before.data.raid.phase.index)), Champion)
        /\ Dispatched("MinionCombatAbility",
                      find_defender(before, before.data.raid.target,
                                    before.data.raid.phase.index))
        /\ Dispatched("RaidEnd", [raid_id |-> before.data.raid.raid_id,
                                  outcome |-> "Failure"])
        /\ game.data.raid = None
        /\ \A i \in 1..Len(history) : history[i].phase.kind # "Access"
        /\ RevealedToChampion(game) = RevealedToChampion(before)
        /\ game.champion.mana = before.champion.mana
        /\ game.overlord.mana = before.overlord.mana
        /\ game.data.turn = IF before.champion.actions > 0 THEN Champion ELSE Overlord
        /\ game.champion.actions = before.champion.actions
        /\ game.champion.prompt = None
        /\ game.overlord.prompt = None

RaidEndedByCombatWithActionLeft ==
    /\ FacedEndRaidDefender
    /\ game.data.raid = None
    /\ game.champion.actions > 0
    /\ HasOccupant(game, before.data.raid.target)
    /\ \E i \in 1..Len(history) : history[i].action = ActivateRoomAction("Activate")

Retreated ==
    /\ result.status = "Ok"
    /\ result.action.kind = "ContinueAction"
    /\ result.action.choice = "Retreat"

\* C16: in a Continue phase the Champion, and nobody else, is offered exactly
\* Advance and Retreat; an accepted Retreat ends the raid in failure: the
\* RaidState is gone, the raid never was in Access and accessed no card, no
\* card became revealed to the Champion, and neither side holds a prompt.
ContinueOffersAdvanceOrRetreat ==
    /\ (game.data.raid # None /\ game.data.raid.phase.kind = "Continue") =>
            /\ game.champion.prompt # None
            /\ game.champion.prompt.responses =
                    <<[kind |-> "ContinueAction", choice |-> "Advance"],
                      [kind |-> "ContinueAction", choice |-> "Retreat"]>>
            /\ game.overlord.prompt = None
    /\ Retreated =>
            /\ before.data.raid.phase.kind = "Continue"
            /\ before.data.raid.accessed = <<>>
            /\ result.side = Champion
            /\ Dispatched("RaidEnd", [raid_id |-> before.data.raid.raid_id,
                                      outcome |-> "Failure"])
            /\ game.data.raid = None
            /\ \A i \in 1..Len(history) : history[i].phase.kind # "Access"
            /\ RevealedToChampion(game) = RevealedToChampion(before)
            /\ game.champion.prompt = None
            /\ game.overlord.prompt = None

RetreatEndedRaid ==
    /\ Retreated
    /\ before.data.raid.phase = Continue(0)
    /\ game.data.raid = None
    /\ game.champion.prompt = None
    /\ game.overlord.prompt = None

\* The number of defenders of the same room placed after the card.
NewerDefenders(g, card_id) ==
    Cardinality({i \in 1..Len(g.overlord_cards) :
        /\ g.overlord_cards[i].position = card(g, card_id).position
        /\ g.overlord_cards[i].sorting_key > card(g, card_id).sorting_key})

IsDefenderOf(g, card_id, room_id) == card(g, card_id).position = Room(room_id, "Defender")

\* C17: the defender met in Encounter(n) is the one with exactly n defenders
\* of the room placed after it (larger sorting keys), so the most recently
\* placed defender is met first, also when it was played after an earlier
\* raid on the room. The defender met is the one the weapon responses
\* target, the one a weapon use defeats, the one whose combat ability fires
\* and the one turned face up on entry.
DefendersNewestFirst ==
    /\ (game.data.raid # None /\ game.data.raid.phase.kind = "Encounter") =>
            \A i \in 1..Len(game.champion.prompt.responses) :
                game.champion.prompt.responses[i].choice = "UseWeaponAbility" =>
                    /\ IsDefenderOf(game, game.champion.prompt.responses[i].target,
                                    game.data.raid.target)
                    /\ NewerDefenders(game, game.champion.prompt.responses[i].target)
                            = game.data.raid.phase.index
    /\ WeaponUsed =>
            /\ IsDefenderOf(before, result.action.target, before.data.raid.target)
            /\ NewerDefenders(before, result.action.target) = before.data.raid.phase.index
    /\ (result.status = "Ok" /\ result.action = NoWeapon) =>
            /\ \E i \in 1..Len(game.trace) : game.trace[i].kind = "MinionCombatAbility"
            /\ \A i \in 1..Len(game.trace) :
                    game.trace[i].kind = "MinionCombatAbility" =>
                        /\ IsDefenderOf(before, game.trace[i].data, before.data.raid.target)
                        /\ NewerDefenders(before, game.trace[i].data)
                                = before.data.raid.phase.index
    /\ EnteredEncounter =>
            \A card_id \in RevealedToChampion(game) \ RevealedToChampion(before) :
                /\ IsDefenderOf(game, card_id, game.data.raid.target)
                /\ NewerDefenders(game, card_id) = game.data.raid.phase.index

\* In a raid of the Champion's second turn the weapon meets, behind a
\* defender played during the Overlord's turn, a defender that an earlier
\* raid on the room had turned face up.
AddedDefenderMetFirst ==
    /\ WeaponUsed
    /\ game.data.turn_number = 2
    /\ before.data.raid.phase = Encounter(1)
    /\ NewerDefenders(before, result.action.target) = 1
    /\ \E i \in 1..Len(history) :
            /\ history[i].action.kind = "EncounterAction"
            /\ history[i].action.choice = "UseWeaponAbility"
            /\ NewerDefenders(before, history[i].action.target) = 0
    /\ \E i \in 1..Len(history) : history[i].action = ActivateRoomAction("Activate")

\* The latest call put the raid into Access.
EnteredAccess ==
    /\ result.status = "Ok"
    /\ game.data.raid # None
    /\ game.data.raid.phase = Access
    /\ (before.data.raid = None \/ before.data.raid.phase # Access)

\* C18: while a raid is in Access, every card of its accessed list is
\* revealed to the Champion, whether the target is the Vault, the Sanctum,
\* the Crypts or an outer room with occupants.
AccessedCardsRevealed ==
    (game.data.raid # None /\ game.data.raid.phase = Access) =>
        \A i \in 1..Len(game.data.raid.accessed) :
            is_revealed_to(card(game, game.data.raid.accessed[i]), Champion)

\* Entering Access on the room turned a card face up for the Champion.
AccessRevealedIn(room_id) ==
    /\ EnteredAccess
    /\ game.data.raid.target = room_id
    /\ \E i \in 1..Len(game.data.raid.accessed) :
            /\ ~is_revealed_to(card(before, game.data.raid.accessed[i]), Champion)
            /\ is_revealed_to(card(game, game.data.raid.accessed[i]), Champion)

AccessRevealedInSanctum == AccessRevealedIn("Sanctum")
AccessRevealedInVault == AccessRevealedIn("Vault")
AccessRevealedInCrypts == AccessRevealedIn("Crypts")
AccessRevealedInOuterRoom == AccessRevealedIn("RoomA")

\* The Overlord's discarded cards the Champion has not seen.
UnseenDiscards(g) ==
    {g.overlord_cards[i].id : i \in {k \in 1..Len(g.overlord_cards) :
        /\ g.overlord_cards[k].position = DiscardPile(Overlord)
        /\ ~is_revealed_to(g.overlord_cards[k], Champion)}}

AccessedSet(g) == {g.data.raid.accessed[i] : i \in 1..Len(g.data.raid.accessed)}

\* C19: when a raid on the Crypts enters Access, its accessed list holds,
\* each once, exactly the cards of the Overlord's discard pile that were not
\* revealed to the Champion before; so a card accessed in one Crypts raid is
\* not accessed by a later one while it stays revealed.
CryptsAccessUnseenOnly ==
    (EnteredAccess /\ game.data.raid.target = "Crypts") =>
        /\ AccessedSet(game) = UnseenDiscards(before)
        /\ Cardinality(AccessedSet(game)) = Len(game.data.raid.accessed)
        /\ \A i \in 1..Len(game.data.raid.accessed) :
                ~is_revealed_to(card(before, game.data.raid.accessed[i]), Champion)

\* A second raid on the Crypts leaves out the discarded scheme that the
\* first one accessed.
CryptsCardNotAccessedAgain ==
    /\ EnteredAccess
    /\ game.data.raid.target = "Crypts"
    /\ game.data.raid.raid_id > 1
    /\ card(before, CardIdOf(Overlord, 7)).position = DiscardPile(Overlord)
    /\ is_revealed_to(card(before, CardIdOf(Overlord, 7)), Champion)
    /\ CardIdOf(Overlord, 7) \notin AccessedSet(game)

CryptsFirstAccess ==
    /\ EnteredAccess
    /\ game.data.raid.target = "Crypts"
    /\ game.data.raid.accessed = <<CardIdOf(Overlord, 7)>>
    /\ card(before, CardIdOf(Overlord, 8)).position = DiscardPile(Overlord)
    /\ is_revealed_to(card(before, CardIdOf(Overlord, 8)), Champion)

\* The Overlord's deck from the top: the cards placed on top, the latest
\* placed first, then the rest of the deck in the order of the card vector.
DeckFromTop(g) ==
    ids_of(SortSeq(SelectSeq(g.overlord_cards, LAMBDA c : c.position = DeckTop(Overlord)),
                   LAMBDA a, b : a.sorting_key > b.sorting_key))
    \o ids_of(SelectSeq(g.overlord_cards, LAMBDA c : c.position = DeckUnknown(Overlord)))

\* The Vault access count: one card, and one more while Vault Sight is in
\* play.
VaultCount(g) == IF in_play(card(g, CardIdOf(Champion, 4)).position) THEN 2 ELSE 1

\* C20: when a raid on the Vault enters Access in a deterministic game and
\* the Vault access count is N, the accessed list is the first N cards of
\* the Overlord's deck counted from the top, in deck order, or the whole
\* deck when it holds fewer than N cards; no card is listed twice, and the
\* deck is in the same order afterwards.
VaultAccessTopOfDeck ==
    (EnteredAccess /\ game.data.raid.target = "Vault") =>
        /\ before.data.deterministic
        /\ game.data.raid.accessed =
                SubSeq(DeckFromTop(before), 1,
                       IF Len(DeckFromTop(before)) < VaultCount(before)
                       THEN Len(DeckFromTop(before))
                       ELSE VaultCount(before))
        /\ Cardinality(AccessedSet(game)) = Len(game.data.raid.accessed)
        /\ DeckFromTop(game) = DeckFromTop(before)

VaultAccessedTopTwo ==
    /\ EnteredAccess
    /\ game.data.raid.target = "Vault"
    /\ VaultCount(before) = 2
    /\ Len(DeckFromTop(before)) = 2
    /\ card(before, DeckFromTop(before)[2]).position = DeckUnknown(Overlord)
    /\ game.data.raid.accessed = DeckFromTop(before)

VaultAccessedWholeDeck ==
    /\ EnteredAccess
    /\ game.data.raid.target = "Vault"
    /\ VaultCount(before) = 2
    /\ Len(DeckFromTop(before)) = 1
    /\ game.data.raid.accessed = DeckFromTop(before)

VaultAccessedTopOne ==
    /\ EnteredAccess
    /\ game.data.raid.target = "Vault"
    /\ VaultCount(before) = 1
    /\ Len(DeckFromTop(before)) = 2
    /\ game.data.raid.accessed = <<DeckFromTop(before)[1]>>

\* The Overlord's hand in the order of the card vector.
OverlordHand(g) == ids_of(SelectSeq(g.overlord_cards, LAMBDA c : c.position = Hand(Overlord)))

\* The Sanctum access count: one card, and one more while Sanctum Sight is
\* in play.
SanctumCount(g) == IF in_play(card(g, CardIdOf(Champion, 5)).position) THEN 2 ELSE 1

SanctumAccessedWholeHand ==
    /\ EnteredAccess
    /\ game.data.raid.target = "Sanctum"
    /\ SanctumCount(before) = 2
    /\ Len(OverlordHand(before)) = 1
    /\ game.data.raid.accessed = OverlordHand(before)

SanctumAccessedFirstOne ==
    /\ EnteredAccess
    /\ game.data.raid.target = "Sanctum"
    /\ SanctumCount(before) = 1
    /\ Len(OverlordHand(before)) > 1
    /\ game.data.raid.accessed = <<OverlordHand(before)[1]>>

\* The latest call was an accepted NoWeapon against the Bridge Troll.
FacedBridgeTroll ==
    /\ result.status = "Ok"
    /\ result.action = NoWeapon
    /\ before.data.raid # None
    /\ before.data.raid.phase.kind = "Encounter"
    /\ card(before, find_defender(before, before.data.raid.target,
                                  before.data.raid.phase.index)).name = "BridgeTroll"

\* C22: no call drives a player's mana, action points or score below zero
\* and none fails for want of mana: the Bridge Troll's "lose 3 mana" leaves
\* the Champion max(0, mana - 3), and the Overlord's mana changes only when a
\* raid enters the encounter of a face-down defender whose cost is no more
\* than the mana held, by exactly that cost.
ResourcesNeverNegative ==
    /\ \A side \in {Overlord, Champion} :
            /\ player(game, side).mana >= 0
            /\ player(game, side).actions >= 0
            /\ player(game, side).score >= 0
    /\ result.status # "Panic"
    /\ FacedBridgeTroll =>
            game.champion.mana = IF before.champion.mana >= 3
                                 THEN before.champion.mana - 3 ELSE 0
    /\ game.overlord.mana # before.overlord.mana =>
            /\ EnteredEncounter
            /\ FaceDownAndAffordable
            /\ game.overlord.mana = before.overlord.mana - get(EncounteredBefore.name).cost.v

TrollTookLastMana ==
    /\ FacedBridgeTroll
    /\ before.champion.mana = 2
    /\ game.champion.mana = 0

OverlordSpentLastMana ==
    /\ EnteredEncounter
    /\ before.overlord.mana > 0
    /\ game.overlord.mana = 0

\* The latest call was an accepted InitiateRaid on a room whose first
\* defender to meet was already face up.
RaidOnRevealedDefender ==
    /\ result.status = "Ok"
    /\ result.action.kind = "InitiateRaid"
    /\ defender_list(before, result.action.room_id) # <<>>
    /\ is_revealed_to(defender_list(before, result.action.room_id)[1], Champion)

\* C29: a raid on a room whose next defender is already face up skips
\* Activation: it opens in Encounter(0) with the Champion prompted and the
\* Overlord waiting, the Overlord's mana is what it was, and no Activation
\* phase or activation response occurs in that raid; and no card that is in
\* a score pile is among the cards a raid accesses.
RevealedDefenderSkipsActivation ==
    /\ RaidOnRevealedDefender =>
            /\ game.data.raid # None
            /\ game.data.raid.phase = Encounter(0)
            /\ game.overlord.prompt = None
            /\ game.champion.prompt # None
            /\ \E i \in 1..Len(game.champion.prompt.responses) :
                    game.champion.prompt.responses[i] = NoWeapon
            /\ game.overlord.mana = before.overlord.mana
            /\ is_revealed_to(defender_list(game, result.action.room_id)[1], Champion)
    /\ (history # <<>> /\ history[1].phase.kind # "Activation") =>
            /\ \A i \in 1..Len(history) :
                    /\ history[i].phase.kind # "Activation"
                    /\ history[i].action.kind # "ActivateRoomAction"
            /\ game.data.raid # None =>
                    /\ game.data.raid.phase.kind # "Activation"
                    /\ game.overlord.prompt = None
    /\ EnteredAccess =>
            \A i \in 1..Len(game.data.raid.accessed) :
                ~in_score_pile(card(before, game.data.raid.accessed[i]).position)

\* A second raid on the Vault, after a card was scored, opens in the
\* encounter of the defender the first raid turned face up.
SecondRaidSkipsActivation ==
    /\ RaidOnRevealedDefender
    /\ result.action.room_id = "Vault"
    /\ before.champion.score > 0
    /\ before.overlord.mana = 6

\* A raid on the Vault reaches Access after the former top card was scored.
VaultAccessAfterScoring ==
    /\ EnteredAccess
    /\ game.data.raid.target = "Vault"
    /\ in_score_pile(card(game, CardIdOf(Overlord, 5)).position)
    /\ game.data.raid.accessed # <<>>

(***************************************************************************)
(* SpecDispatch: events and queries dispatched against games whose decks   *)
(* arrive in every order.                                                  *)
(***************************************************************************)
Perms(S) ==
    {q \in [1..Cardinality(S) -> S] : \A i, j \in 1..Cardinality(S) : i # j => q[i] # q[j]}

DispatchOverlordDecks ==
    Perms({"TestDawnBounty", "TestDawnTax", "ShadowLurker"})
    \cup {<<"TestDawnTax", "TestDawnBounty", "TestDawnTax">>}

DispatchChampionDecks == Perms({"TestDawnEcho", "TestDuskShade"})

LurkerPositions == {Hand(Overlord), Room("RoomA", "Defender"), Room("Vault", "Defender")}

dispatch_game(overlord_names, champion_names, champion_mana, lurker_position) ==
    LET fresh == new_game(DeckOf("TestOverlordIdentity", overlord_names),
                          DeckOf("TestChampionIdentity", champion_names), FALSE)
        position_of(c) ==
            IF c.name = "ShadowLurker" THEN lurker_position
            ELSE IF c.side = Champion /\ c.position.kind # "Identity" THEN Hand(Champion)
            ELSE None
        placements == SelectSeq([i \in 1..Len(all_cards(fresh)) |->
                                    [id |-> all_cards(fresh)[i].id,
                                     position |-> position_of(all_cards(fresh)[i])]],
                                LAMBDA p : p.position # None)
        placed == place_cards(fresh, placements)
    IN  populate_delegate_cache(
            set_player(placed, Champion, [player(placed, Champion) EXCEPT !.mana = champion_mana]))

InitDispatch ==
    /\ \E overlord_names \in DispatchOverlordDecks, champion_names \in DispatchChampionDecks,
          champion_mana \in {0, 1, 4}, lurker_position \in LurkerPositions :
            game = dispatch_game(overlord_names, champion_names, champion_mana, lurker_position)
    /\ before = game
    /\ result = NoResult
    /\ flag_init = FALSE
    /\ flag = FlagNew(FALSE)
    /\ history = <<>>

\* The visits of one dispatch pass, in the order they were made.
visits(g, pass) == SelectSeq(g.trace, LAMBDA e : e.type = "visit" /\ e.pass = pass)
pass_record(g, pass) ==
    CHOOSE e \in {g.trace[i] : i \in 1..Len(g.trace)} : e.type = "pass" /\ e.pass = pass
cached(g, kind) ==
    IF kind \in DOMAIN g.delegate_cache.lookup THEN g.delegate_cache.lookup[kind] ELSE <<>>

CallRecord(op, kind, data, value, order) ==
    [op |-> op, kind |-> kind, data |-> data, value |-> value, order |-> order]

\* One invoke_event call from outside any dispatch.
DispatchEvent ==
    /\ Len(history) < MaxDispatches
    /\ \E kind \in {"Dawn", "Dusk"} :
        LET data == game.data.turn_number
            after == invoke_event(clear_trace(game), kind, data)
            order == [i \in 1..Len(visits(after, 1)) |-> visits(after, 1)[i].context.scope]
        IN  /\ game' = after
            /\ history' = Append(history, CallRecord("event", kind, data, 0, order))
    /\ before' = game
    /\ UNCHANGED <<result, flag, flag_init>>

\* One queries::health call; the game is borrowed immutably.
QueryHealth ==
    /\ Len(history) < MaxDispatches
    /\ \E i \in 1..Len(game.overlord_cards) :
        LET card_id == game.overlord_cards[i].id
        IN  history' = Append(history,
                CallRecord("query", "HealthValue", card_id, health(game, card_id), <<>>))
    /\ game' = clear_trace(game)
    /\ before' = game
    /\ UNCHANGED <<result, flag, flag_init>>

NextDispatch == DispatchEvent \/ QueryHealth

SpecDispatch == InitDispatch /\ [][NextDispatch]_vars

visit_side(e) == scope_side(e.context.scope)
visit_name(g, e) == card(g, scope_card_id(e.context.scope)).name

\* C6: in every dispatch pass each delegate of an Overlord card is visited
\* before any delegate of a Champion card, and within one side the delegates
\* are visited in lexicographic order of their cards' names; two dispatches of
\* the same event with the same payload against the same cache visit the
\* delegates in the same order.
DispatchOrderDeterministic ==
    /\ \A p \in 1..game.passes :
        LET v == visits(game, p)
        IN  \A i, j \in 1..Len(v) : i < j =>
                /\ (visit_side(v[i]) = Overlord \/ visit_side(v[j]) = Champion)
                /\ (visit_side(v[i]) = visit_side(v[j]) =>
                        name_rank(visit_name(game, v[i])) <= name_rank(visit_name(game, v[j])))
    /\ \A i, j \in 1..Len(history) :
        (/\ history[i].op = "event" /\ history[j].op = "event"
         /\ history[i].kind = history[j].kind /\ history[i].data = history[j].data)
        => history[i].order = history[j].order

\* A pass visited delegates of both sides, and two Overlord cards whose deck
\* order is the reverse of their name order.
DispatchedAcrossSides ==
    \E p \in 1..game.passes :
        LET v == visits(game, p)
        IN  /\ \E i \in 1..Len(v) : visit_side(v[i]) = Champion
            /\ \E i, j \in 1..Len(v) :
                /\ i < j
                /\ visit_side(v[i]) = Overlord /\ visit_side(v[j]) = Overlord
                /\ visit_name(game, v[i]) # visit_name(game, v[j])
                /\ scope_card_id(v[i].context.scope).index > scope_card_id(v[j].context.scope).index

DelegatesRunWhenRequired ==
    \A p \in 1..game.passes :
        LET rec == pass_record(game, p)
            v == visits(game, p)
            list == cached(game, rec.kind)
        IN  /\ Len(v) = Len(list)
            /\ \A i \in 1..Len(v) :
                LET scope == v[i].context.scope
                    delegate == v[i].context.delegate
                IN  /\ v[i].index = i - 1
                    /\ v[i].context = list[i]
                    /\ v[i].pre = IF i = 1 THEN rec.pre ELSE v[i - 1].post
                    /\ v[i].ran = requirement(v[i].pre, scope, v[i].data, delegate.requirement)
                    /\ v[i].post = IF v[i].ran
                                   THEN snapshot(mutation(v[i].pre, scope, v[i].data, delegate.fn))
                                   ELSE v[i].pre

\* A delegate ran whose requirement was false when the pass began, and another
\* delegate of the same pass did not run.
RequirementTurnedTrue ==
    \E p \in 1..game.passes :
        LET rec == pass_record(game, p)
            v == visits(game, p)
        IN  /\ \E i \in 1..Len(v) :
                /\ v[i].ran
                /\ ~requirement(rec.pre, v[i].context.scope, v[i].data,
                                v[i].context.delegate.requirement)
            /\ \E i \in 1..Len(v) : ~v[i].ran

RECURSIVE fold_transforms(_, _, _, _)
fold_transforms(g, data, contexts, current) ==
    IF contexts = <<>> THEN current
    ELSE fold_transforms(g, data, Tail(contexts),
            transformation(g, Head(contexts).scope, data, current, Head(contexts).delegate.fn))

applicable(g, kind, data) ==
    SelectSeq(cached(g, kind), LAMBDA c : requirement(g, c.scope, data, c.delegate.requirement))

\* C9: a health query returns the printed health folded, left to right in
\* cache order, through the transformations of the HealthValue delegates whose
\* requirement holds; with no such delegate it returns the printed health; and
\* the game is the same after the query as before it.
QueryIsLeftFold ==
    (history # <<>> /\ history[Len(history)].op = "query") =>
        LET call == history[Len(history)]
            initial == unwrap_or(stats(before, call.data).health, 0)
            folded == applicable(before, call.kind, call.data)
        IN  /\ call.value = fold_transforms(before, call.data, folded, initial)
            /\ (folded = <<>> => call.value = initial)
            /\ snapshot(game) = snapshot(before)

\* A query folded two transformations, add one and then double, over a
\* printed health of zero, and skipped a delegate whose requirement failed.
QueryFoldedTwo ==
    /\ history # <<>>
    /\ history[Len(history)].op = "query"
    /\ LET call == history[Len(history)]
       IN  /\ Len(applicable(before, call.kind, call.data)) >= 2
           /\ Len(applicable(before, call.kind, call.data)) < Len(cached(before, call.kind))
           /\ call.value = 2

(***************************************************************************)
(* SpecFlag: a Flag folded through a sequence of with_override calls.      *)
(***************************************************************************)
IdleGame == new_game(DeckOf("TestOverlordIdentity", <<>>),
                     DeckOf("TestChampionIdentity", <<>>), FALSE)

InitFlag ==
    /\ game = IdleGame
    /\ result = NoResult
    /\ before = IdleGame
    /\ flag_init \in BOOLEAN
    /\ flag = FlagNew(flag_init)
    /\ history = <<>>

ApplyOverride ==
    /\ Len(history) < MaxOverrides
    /\ \E value \in BOOLEAN :
        /\ flag' = with_override(flag, value)
        /\ history' = Append(history, value)
    /\ UNCHANGED <<game, result, before, flag_init>>

SpecFlag == InitFlag /\ [][ApplyOverride]_vars

\* C5: a Flag with no override resolves to its default; once any override is
\* false the flag resolves to false whatever follows; with_override(true) on a
\* flag already in the Override state leaves it unchanged.
FlagFalseWins ==
    /\ (history = <<>> => (flag = FlagDefault(flag_init) /\ flag_to_bool(flag) = flag_init))
    /\ ((\E i \in 1..Len(history) : history[i] = FALSE) => flag_to_bool(flag) = FALSE)
    /\ (flag.kind = "Override" => with_override(flag, TRUE) = flag)

\* A false override was followed by at least two true history.
FlagFalseThenTrue ==
    /\ Len(history) >= 3
    /\ history[1] = FALSE
    /\ \A i \in 2..Len(history) : history[i] = TRUE

RECURSIVE with_overrides(_, _)
\* A flag passed through with_override once per value, in sequence order.
with_overrides(f, values) ==
    IF values = <<>> THEN f
    ELSE with_overrides(with_override(f, Head(values)), Tail(values))

\* Every sequence holding the same values as `values`, each as many times.
Reorderings(values) ==
    {[i \in 1..Len(values) |-> values[p[i]]] :
        p \in {q \in [1..Len(values) -> 1..Len(values)] :
                    \A i, j \in 1..Len(values) : q[i] = q[j] => i = j}}

\* C38: once at least one override was applied, the flag is the Override of
\* the conjunction of the override values, and so is the result of applying
\* the same values in any other order to a flag of either default value.
FlagOrderIndependent ==
    history # <<>> =>
        /\ flag = FlagOverride(\A i \in 1..Len(history) : history[i])
        /\ flag = with_overrides(FlagNew(flag_init), history)
        /\ \A values \in Reorderings(history) : \A default \in BOOLEAN :
                with_overrides(FlagNew(default), values) = flag

\* A false default was overridden by true, false, true in that order: the
\* overrides differ from each other and the last one from the result.
FlagMixedOverrides ==
    /\ flag_init = FALSE
    /\ history = <<TRUE, FALSE, TRUE>>
    /\ flag = FlagOverride(FALSE)

\* A false default was overridden by true values only and resolves to true.
FlagDefaultOverruled ==
    /\ flag_init = FALSE
    /\ Len(history) >= 2
    /\ flag_to_bool(flag) = TRUE

(***************************************************************************)
(* SpecMove: arbitrary move_card calls on one game.                        *)
(***************************************************************************)
MoveGame ==
    new_game(DeckOf("TestOverlordIdentity", <<"BridgeTroll", "TestScheme31">>),
             DeckOf("TestChampionIdentity", <<"TestWeapon3Attack12Boost3Cost">>), FALSE)

MovePositions ==
    {Hand(Overlord), Hand(Champion), Room("RoomA", "Defender"), DiscardPile(Overlord),
     DeckTop(Overlord), Scored(Champion), Identity(Overlord)}

InitMove ==
    /\ game = MoveGame
    /\ result = NoResult
    /\ before = MoveGame
    /\ flag_init = FALSE
    /\ flag = FlagNew(FALSE)
    /\ history = <<>>

\* One move_card call; `history` records the keys assigned, in call order.
MoveCard ==
    /\ Len(history) < MaxMoves
    /\ \E i \in 1..Len(all_card_ids(game)), position \in MovePositions :
        LET card_id == all_card_ids(game)[i]
        IN  /\ before' = game
            /\ game' = move_card(game, card_id, position)
            /\ history' = Append(history, card(game', card_id).sorting_key)
    /\ result' = NoResult
    /\ UNCHANGED <<flag, flag_init>>

SpecMove == InitMove /\ [][MoveCard]_vars

\* C4: the keys assigned by successive move_card calls are strictly increasing
\* (so none is assigned twice), and next_sorting_key exceeds every key stored
\* on a card.
SortingKeysIncrease ==
    /\ \A i, j \in 1..Len(history) : i < j => history[i] < history[j]
    /\ \A i \in 1..Len(all_cards(game)) : all_cards(game)[i].sorting_key < game.next_sorting_key

\* The same card was moved twice and another card once.
MovedThrice ==
    /\ Len(history) = 3
    /\ \E i \in 1..Len(all_cards(game)) : all_cards(game)[i].sorting_key = history[3]
    /\ Cardinality({all_cards(game)[i].sorting_key : i \in 1..Len(all_cards(game))}) = 3

\* The card the latest move_card call moved, before and after the call.
MovedBefore == CHOOSE c \in {all_cards(before)[i] : i \in 1..Len(all_cards(before))} :
                    card(game, c.id).sorting_key = before.next_sorting_key
MovedAfter == card(game, MovedBefore.id)

NoIdentityLeft ==
    /\ Len(Identities(game, Champion)) = 0
    /\ Len(Identities(before, Champion)) = 1

SetRevealedToAction(card_id, revealed) ==
    [kind |-> "SetRevealedTo", card_id |-> card_id, revealed |-> revealed]

\* One set_revealed_to call.
SetRevealedTo ==
    /\ \E i \in 1..Len(all_card_ids(game)), side \in Sides, revealed \in BOOLEAN :
            /\ game' = set_revealed_to(game, all_card_ids(game)[i], side, revealed)
            /\ result' = [status |-> "Ok", side |-> side,
                          action |-> SetRevealedToAction(all_card_ids(game)[i], revealed)]
    /\ before' = game
    /\ UNCHANGED <<history, flag, flag_init>>

SpecReveal == InitMove /\ [][SetRevealedTo]_vars

\* C24: after set_revealed_to(card, side, v) the card is revealed to `side`
\* exactly if v, its flag for the other side is what it was, and so are its
\* position, sorting key, name, side and id, every other card and the rest
\* of the game; the flag written is the owner's exactly when `side` is the
\* side of the card's id.
SetRevealedToFrame ==
    result # NoResult =>
        LET id == result.action.card_id
            old == card(before, id)
            new == card(game, id)
        IN  /\ is_revealed_to(new, result.side) = result.action.revealed
            /\ is_revealed_to(new, opponent(result.side)) = is_revealed_to(old, opponent(result.side))
            /\ new.position = old.position /\ new.sorting_key = old.sorting_key
            /\ new.name = old.name /\ new.side = old.side /\ new.id = old.id
            /\ IF result.side = id.side
               THEN /\ new.revealed_to_owner = result.action.revealed
                    /\ new.revealed_to_opponent = old.revealed_to_opponent
               ELSE /\ new.revealed_to_opponent = result.action.revealed
                    /\ new.revealed_to_owner = old.revealed_to_owner
            /\ \A i \in 1..Len(all_card_ids(game)) :
                    all_card_ids(game)[i] # id =>
                        card(game, all_card_ids(game)[i]) = card(before, all_card_ids(game)[i])
            /\ [game EXCEPT !.overlord_cards = <<>>, !.champion_cards = <<>>]
                    = [before EXCEPT !.overlord_cards = <<>>, !.champion_cards = <<>>]

\* A card of the Overlord shown to the Champion alone.
ShownToOpponentOnly ==
    /\ result # NoResult
    /\ result.side = Champion /\ result.action.revealed
    /\ result.action.card_id = CardIdOf(Overlord, 1)
    /\ ~is_revealed_to(card(game, result.action.card_id), Overlord)
    /\ ~is_revealed_to(card(before, result.action.card_id), Champion)

\* A face-up identity hidden from its owner alone.
HiddenFromOwnerOnly ==
    /\ result # NoResult
    /\ result.side = Overlord /\ ~result.action.revealed
    /\ result.action.card_id = CardIdOf(Overlord, 0)
    /\ is_revealed_to(card(before, result.action.card_id), Overlord)
    /\ is_revealed_to(card(game, result.action.card_id), Champion)

(***************************************************************************)
(* SpecIdentity: identity lookups between move_card calls.                 *)
(***************************************************************************)
IdentityLookup == [kind |-> "Identity"]

\* One call of GameState::identity.
LookupIdentity ==
    /\ \E side \in Sides :
            result' = [status |-> identity(game, side).status, side |-> side,
                       action |-> IdentityLookup, card |-> identity(game, side).card]
    /\ before' = game
    /\ UNCHANGED <<game, history, flag, flag_init>>

SpecIdentity == InitMove /\ [][MoveCard \/ LookupIdentity]_vars

\* The latest step was an identity lookup.
LookedUp == result # NoResult

\* C26 as stated: looking up the identity of a side with no Identity card or
\* with more than one panics.
IdentityLookupPanicsUnlessOne ==
    LookedUp /\ Len(Identities(game, result.side)) # 1 => result.status = "Panic"

\* C26, amended: looking up the identity of a side panics exactly when the
\* side has no card in Identity position; with one or more it returns the
\* one of lowest index in the side's card vector.
IdentityLookupPanicsIfNone ==
    LookedUp =>
        /\ result.status = "Panic" <=> Len(Identities(game, result.side)) = 0
        /\ result.status = "Ok" =>
                /\ result.card.position.kind = "Identity" /\ result.card.id.side = result.side
                /\ result.card = card(game, result.card.id)
                /\ \A i \in 1..Len(cards(game, result.side)) :
                        cards(game, result.side)[i].position.kind = "Identity"
                            => result.card.id.index <= cards(game, result.side)[i].id.index

IdentityFoundAmongTwo ==
    /\ LookedUp
    /\ Len(Identities(game, result.side)) = 2
    /\ result.status = "Ok"

IdentityLookupPanicked ==
    /\ LookedUp
    /\ Len(Identities(game, result.side)) = 0
    /\ result.status = "Panic"

(***************************************************************************)
(* SpecPhase: raids in which set_raid_phase is also called with an         *)
(* Encounter phase of any index up to MaxDefenders, whether or not the     *)
(* room has that defender.                                                 *)
(***************************************************************************)
SetRaidPhaseCall(phase) == [kind |-> "SetRaidPhase", phase |-> phase]

\* One call of set_raid_phase with an Encounter phase, at most one a raid.
EnterEncounter ==
    /\ game.data.raid # None
    /\ game.panic = ""
    /\ \A i \in 1..Len(history) : history[i].action.kind # "SetRaidPhase"
    /\ \E index \in 0..MaxDefenders :
            Respond(action_result(summarize(set_raid_phase(clear_trace(game), Encounter(index)))),
                    Champion, SetRaidPhaseCall(Encounter(index)))
    /\ UNCHANGED <<flag, flag_init>>

\* A panic ends the game: no request is handled after it.
NextPhase ==
    \/ game.panic = "" /\ Next
    \/ EnterEncounter

SpecPhase == InitAdd /\ [][NextPhase]_vars

\* The responses of a prompt that name a defender name this card.
PromptIsFor(prompt, defender_id) ==
    \A i \in 1..Len(prompt.responses) :
        prompt.responses[i].kind = "EncounterAction" /\ prompt.responses[i].choice = "UseWeaponAbility"
            => prompt.responses[i].target = defender_id

\* C27: a call of set_raid_phase with Encounter(n) panics when the target
\* room has no defender n and then builds no prompt, reveals no card and
\* spends no mana; when the room has defender n the call does not panic and
\* the Champion's prompt is built for that defender. A raid that has not
\* panicked is never in an Encounter phase without its defender.
MissingDefenderPanics ==
    /\ (game.panic = "" /\ game.data.raid # None /\ game.data.raid.phase.kind = "Encounter")
            => has_defender(game, game.data.raid.target, game.data.raid.phase.index)
    /\ (result # NoResult /\ result.action.kind = "SetRaidPhase") =>
            IF result.action.phase.index >= Len(defender_list(before, before.data.raid.target))
            THEN /\ result.status = "Panic"
                 /\ game.overlord.prompt = before.overlord.prompt
                 /\ game.champion.prompt = before.champion.prompt
                 /\ game.overlord.mana = before.overlord.mana
                 /\ game.overlord_cards = before.overlord_cards
            ELSE /\ result.status = "Ok"
                 /\ game.data.raid.phase = result.action.phase
                 /\ game.champion.prompt # None
                 /\ PromptIsFor(game.champion.prompt,
                                defender_list(before, before.data.raid.target)
                                    [result.action.phase.index + 1].id)

EncounterOfMissingDefender ==
    /\ result # NoResult
    /\ result.action.kind = "SetRaidPhase"
    /\ result.action.phase = Encounter(1)
    /\ Len(defender_list(before, before.data.raid.target)) = 1
    /\ result.status = "Panic"

EncounterOfPresentDefender ==
    /\ result # NoResult
    /\ result.action.kind = "SetRaidPhase"
    /\ result.action.phase = Encounter(0)
    /\ Len(defender_list(before, before.data.raid.target)) = 1
    /\ result.status = "Ok"

(***************************************************************************)
(* SpecTrack: raids on games created with and without an update log.       *)
(***************************************************************************)
NewGameCall(enable_animations) == [kind |-> "NewGame", enable_animations |-> enable_animations]

TrackRooms == {"Vault", "RoomA"}

InitTrack ==
    /\ \E enable_animations \in BOOLEAN, defenders \in DefenderOrders,
          room_id \in TrackRooms, revealed \in BOOLEAN :
            /\ game = raid_board(defenders, room_id, revealed,
                                 Layout(Funds(9, 9, StartActions, Hand(Champion)),
                                        ArenaItem("Artifacts"), Room("RoomA", "Occupant")),
                                 enable_animations)
            /\ result = [status |-> "Ok", side |-> NoSide, action |-> NewGameCall(enable_animations)]
    /\ before = game
    /\ flag_init = FALSE
    /\ flag = FlagNew(FALSE)
    /\ history = <<>>

SpecTrack == InitTrack /\ [][Next]_vars

\* The same game with the update log switched the other way and empty.
OtherTracking(g) == [g EXCEPT !.updates = [some |-> ~g.updates.some, log |-> <<>>]]

\* The game apart from its update log.
WithoutUpdates(g) == [g EXCEPT !.updates = None]

\* C28: a game created without update tracking never has an update log and
\* a game created with it always has one; a call only appends to the log,
\* the record of the raid's start first; and a call changes every other
\* field exactly as it does in the game that differs only in tracking.
UpdateLogOptional ==
    /\ result.action.kind = "NewGame" =>
            game.updates = [some |-> result.action.enable_animations, log |-> <<>>]
    /\ game.updates.some = before.updates.some
    /\ ~game.updates.some => game.updates.log = <<>>
    /\ game.updates.some =>
            /\ Len(game.updates.log) >= Len(before.updates.log)
            /\ Take(game.updates.log, Len(before.updates.log)) = before.updates.log
            /\ (result.status = "Ok" /\ result.action.kind = "InitiateRaid") =>
                    /\ Len(game.updates.log) > Len(before.updates.log)
                    /\ game.updates.log[Len(before.updates.log) + 1]
                            = <<"InitiateRaid", result.action.room_id>>
    /\ result.action.kind # "NewGame" =>
            /\ handle_game_action(OtherTracking(before), result.side, result.action).status
                    = result.status
            /\ WithoutUpdates(handle_game_action(OtherTracking(before), result.side,
                                                 result.action).game)
                    = WithoutUpdates(game)

UntrackedRaidEnded ==
    /\ ~game.updates.some
    /\ result.status = "Ok"
    /\ result.action = EndRaid
    /\ game.champion.score > 0

TrackedRaidLogged ==
    /\ game.updates.some
    /\ result.status = "Ok"
    /\ result.action = EndRaid
    /\ Len(game.updates.log) > Len(before.updates.log)

(***************************************************************************)
(* SpecRandom: random_card called twice on the same new, deterministic     *)
(* game with the same position.                                            *)
(***************************************************************************)
RandomPositions ==
    {DeckUnknown(Overlord), DeckUnknown(Champion), Identity(Overlord), Hand(Overlord),
     Hand(Champion)}

RandomCardCall(position) == [kind |-> "RandomCard", position |-> position]

\* Two calls of random_card, each with its own draw.
RandomCard ==
    /\ game.data.deterministic
    /\ \E position \in RandomPositions :
        \E first \in random_card(game, position), second \in random_card(game, position) :
            result' = [status |-> "Ok", side |-> NoSide, action |-> RandomCardCall(position),
                       first |-> first, second |-> second]
    /\ before' = game
    /\ UNCHANGED <<game, history, flag, flag_init>>

SpecRandom == InitMove /\ [][RandomCard]_vars

\* C25: in a deterministic game an operation is a function of the state and
\* its inputs: random_card, called twice on the same game with the same
\* position, returns the same card.
RandomCardIsAFunction ==
    (result # NoResult /\ result.action.kind = "RandomCard") => result.first = result.second

\* The cards of the game that are in `position`.
CardsIn(g, position) ==
    {i \in 1..Len(all_cards(g)) : all_cards(g)[i].position = position}

\* C34: random_card(position) returns a card that is in `position`, and
\* returns None exactly when no card of either side is in `position`.
RandomCardIsInPosition ==
    (result # NoResult /\ result.action.kind = "RandomCard") =>
        /\ result.first # None =>
                card(game, result.first).position = result.action.position
        /\ result.first = None <=> CardsIn(game, result.action.position) = {}

(***************************************************************************)
(* Defenders the Overlord does not or cannot turn face up.                 *)
(***************************************************************************)
\* The defenders of the raided room as they were before the latest call.
DefendersBefore == defender_list(before, game.data.raid.target)

\* The indices of the defenders that were face up before the latest call.
FaceUpBefore ==
    {i \in 0..(Len(DefendersBefore) - 1) : is_revealed_to(DefendersBefore[i + 1], Champion)}

\* The latest call was the Overlord's answer to the Activation prompt.
AnsweredActivation(choice) ==
    /\ result.status = "Ok"
    /\ result.action = ActivateRoomAction(choice)

\* C30: a defender that is face down and that the Overlord does not turn
\* face up, because the Overlord passed on Activation or holds less mana
\* than its cost, is not encountered: the raid goes on to the next defender
\* that is face up or can be paid for, or to Access, the Champion's prompt
\* names no such defender, the defender stays face down and the Overlord's
\* mana is what it was.
UnrevealedDefenderSkipped ==
    /\ EnteredEncounter =>
            \/ is_revealed_to(EncounteredBefore, Champion)
            \/ /\ game.data.raid.room_active
               /\ get(EncounteredBefore.name).cost.v <= before.overlord.mana
    /\ (result.status = "Ok" /\ game.data.raid # None) =>
            \A i \in 0..(Len(DefendersBefore) - 1) :
                (~is_revealed_to(DefendersBefore[i + 1], Champion)
                    /\ game.data.raid.phase # Encounter(i))
                => /\ ~is_revealed_to(card(game, DefendersBefore[i + 1].id), Champion)
                   /\ game.champion.prompt # None =>
                        \A k \in 1..Len(game.champion.prompt.responses) :
                            (game.champion.prompt.responses[k].kind = "EncounterAction"
                                /\ game.champion.prompt.responses[k].choice = "UseWeaponAbility")
                            => game.champion.prompt.responses[k].target # DefendersBefore[i + 1].id
    /\ AnsweredActivation("Pass") =>
            /\ game.overlord.mana = before.overlord.mana
            /\ \A i \in 1..Len(DefendersBefore) :
                    card(game, DefendersBefore[i].id) = DefendersBefore[i]
            /\ game.data.raid.phase =
                    IF FaceUpBefore = {} THEN Access
                    ELSE Encounter(CHOOSE i \in FaceUpBefore : \A j \in FaceUpBefore : i <= j)
    /\ (AnsweredActivation("Activate")
            /\ get(DefendersBefore[1].name).cost.v > before.overlord.mana) =>
            /\ game.data.raid.phase # Encounter(0)
            /\ ~is_revealed_to(card(game, DefendersBefore[1].id), Champion)
            /\ game.data.raid.phase = Access => game.overlord.mana = before.overlord.mana
            /\ game.data.raid.phase.kind = "Encounter" =>
                    game.overlord.mana =
                        IF is_revealed_to(EncounteredBefore, Champion)
                        THEN before.overlord.mana
                        ELSE before.overlord.mana - get(EncounteredBefore.name).cost.v
    /\ game.data.raid # None =>
            \A h \in 1..Len(history) :
                history[h].phase.kind = "Encounter" =>
                    is_revealed_to(defender_list(game, game.data.raid.target)
                                        [history[h].phase.index + 1], Champion)

\* The Overlord passed and the raid went by a face-down defender to Access.
PassedDefenderSkipped ==
    /\ AnsweredActivation("Pass")
    /\ Len(DefendersBefore) = 1
    /\ game.data.raid.phase = Access
    /\ ~is_revealed_to(card(game, DefendersBefore[1].id), Champion)

\* The Overlord activated the room without the mana for its first defender.
UnaffordableDefenderSkipped ==
    /\ AnsweredActivation("Activate")
    /\ get(DefendersBefore[1].name).cost.v > before.overlord.mana
    /\ game.data.raid.phase = Access
    /\ ~is_revealed_to(card(game, DefendersBefore[1].id), Champion)

(***************************************************************************)
(* Scoring a card and ending the raid from Access.                         *)
(***************************************************************************)
\* The latest call was the Champion scoring an accessed card.
ScoredCard ==
    /\ result.status = "Ok"
    /\ result.action.kind = "RaidScoreCard"

\* C31: when the Champion scores an accessed scheme during Access, the
\* Champion's score grows by the scheme's points (1 for TestScheme31) and the
\* Overlord's score is unchanged, the card is in the Champion's score pile,
\* the raid is the same raid and still in Access, the Champion holds a
\* prompt again that offers EndRaid, last, and no longer offers to score that
\* card, and the Overlord holds no prompt.
ScoringKeepsAccess ==
    ScoredCard =>
        /\ card(before, result.action.card_id).name = "TestScheme31"
        /\ game.champion.score = before.champion.score + 1
        /\ game.overlord.score = before.overlord.score
        /\ card(game, result.action.card_id).position = Scored(Champion)
        /\ game.data.raid # None
        /\ game.data.raid.raid_id = before.data.raid.raid_id
        /\ before.data.raid.phase = Access
        /\ game.data.raid.phase = Access
        /\ game.champion.prompt # None
        /\ game.champion.prompt.responses[Len(game.champion.prompt.responses)] = EndRaid
        /\ \A k \in 1..Len(game.champion.prompt.responses) :
                game.champion.prompt.responses[k] # RaidScoreCard(result.action.card_id)
        /\ game.overlord.prompt = None

\* The Champion scored the scheme of an outer room after defeating its
\* defender; the scheme is no longer offered and EndRaid is.
ScoredSchemeBehindDefender ==
    /\ ScoredCard
    /\ game.data.raid.target = "RoomA"
    /\ Len(Encounters) = 1
    /\ game.champion.score = 1
    /\ has_response(before, Champion, RaidScoreCard(result.action.card_id))
    /\ ~has_response(game, Champion, RaidScoreCard(result.action.card_id))
    /\ has_response(game, Champion, EndRaid)

\* The latest call was the Champion ending the raid from Access.
EndedRaidFromAccess ==
    /\ result.status = "Ok"
    /\ result.action = EndRaid

\* C32: choosing EndRaid in Access removes the RaidState and leaves neither
\* side with a prompt; while a raid is active the turn is the Champion's,
\* also when the Champion has no action point left, and no call made during
\* a raid that leaves the raid active changes the turn or its number; a
\* call that ends the raid passes the turn to the Overlord, with the next
\* turn number and the Overlord's start-of-turn action points, exactly when
\* the Champion holds no action point.
EndRaidPassesTurn ==
    /\ EndedRaidFromAccess =>
            /\ before.data.raid # None
            /\ before.data.raid.phase = Access
            /\ game.data.raid = None
            /\ game.champion.prompt = None
            /\ game.overlord.prompt = None
    /\ game.data.raid # None => game.data.turn = Champion
    /\ (result.status = "Ok" /\ before.data.raid # None /\ game.data.raid # None) =>
            /\ game.data.turn = before.data.turn
            /\ game.data.turn_number = before.data.turn_number
    /\ RaidJustEnded =>
            /\ before.data.turn = Champion
            /\ game.champion.actions = before.champion.actions
            /\ IF before.champion.actions = 0
               THEN /\ game.data.turn = Overlord
                    /\ game.data.turn_number = before.data.turn_number + 1
                    /\ game.overlord.actions = 3
               ELSE /\ game.data.turn = Champion
                    /\ game.data.turn_number = before.data.turn_number
                    /\ game.overlord.actions = before.overlord.actions

\* The Champion spent the last action point on a raid, scored in it and
\* ended it: the turn is the Overlord's.
LastActionRaidCompleted ==
    /\ EndedRaidFromAccess
    /\ before.champion.actions = 0
    /\ before.data.turn = Champion
    /\ \E i \in 1..Len(history) : history[i].action.kind = "RaidScoreCard"
    /\ game.data.turn = Overlord

\* A raid goes on although the Champion has no action point left.
RaidActiveWithoutActionPoints ==
    /\ game.data.raid # None
    /\ game.data.raid.phase = Access
    /\ game.champion.actions = 0
    /\ game.data.turn = Champion

\* The Champion ended a raid with an action point left and keeps the turn.
RaidCompletedWithActionLeft ==
    /\ EndedRaidFromAccess
    /\ game.champion.actions > 0
    /\ game.data.turn = Champion

(***************************************************************************)
(* The weapons offered against a defender.                                 *)
(***************************************************************************)
\* The defender of the encounter the raid is in.
EncounteredDefender ==
    card(game, find_defender(game, game.data.raid.target, game.data.raid.phase.index))

\* The indices of the Champion's prompt responses equal to `action`.
ResponsesEqualTo(action) ==
    {k \in 1..Len(game.champion.prompt.responses) : game.champion.prompt.responses[k] = action}

\* The Champion's cards that are weapons in play.
WeaponsInPlay ==
    {i \in 1..Len(game.champion_cards) :
        /\ in_play(game.champion_cards[i].position)
        /\ get(game.champion_cards[i].name).card_type = "Weapon"}

\* C33: while a raid is in an Encounter phase the Champion's prompt holds,
\* for each weapon in play that can defeat the current defender, exactly one
\* UseWeaponAbility response naming that weapon and that defender, no other
\* weapon response, and exactly one NoWeapon response, the last one; the
\* test weapon (3 attack, 2 more for each mana spent) is offered exactly
\* when 3 plus twice the Champion's mana reaches the defender's health as
\* the health query gives it.
EncounterPromptOffersUsableWeapons ==
    (game.data.raid # None /\ game.data.raid.phase.kind = "Encounter") =>
        /\ game.champion.prompt # None
        /\ ResponsesEqualTo(NoWeapon) = {Len(game.champion.prompt.responses)}
        /\ \A i \in WeaponsInPlay :
            /\ can_defeat_target(game, game.champion_cards[i].id, EncounteredDefender.id) =>
                    Cardinality(ResponsesEqualTo(
                        UseWeaponAbility(game.champion_cards[i].id, EncounteredDefender.id))) = 1
            /\ game.champion_cards[i].name = "TestWeapon3Attack12Boost3Cost"
            /\ Cardinality(ResponsesEqualTo(
                    UseWeaponAbility(game.champion_cards[i].id, EncounteredDefender.id)))
                = IF health(game, EncounteredDefender.id) <= 3 + 2 * game.champion.mana
                  THEN 1 ELSE 0
        /\ \A k \in 1..(Len(game.champion.prompt.responses) - 1) :
            \E i \in WeaponsInPlay :
                /\ game.champion.prompt.responses[k] =
                        UseWeaponAbility(game.champion_cards[i].id, EncounteredDefender.id)
                /\ can_defeat_target(game, game.champion_cards[i].id, EncounteredDefender.id)

\* A weapon in play is not offered: the Champion lacks the mana to raise its
\* attack to the defender's health, and NoWeapon is the only response.
WeaponOutOfReach ==
    /\ game.data.raid # None
    /\ game.data.raid.phase.kind = "Encounter"
    /\ WeaponsInPlay # {}
    /\ game.champion.prompt.responses = <<NoWeapon>>

\* A weapon in play is offered along with NoWeapon.
WeaponOffered ==
    /\ game.data.raid # None
    /\ game.data.raid.phase.kind = "Encounter"
    /\ Len(game.champion.prompt.responses) = 2
    /\ game.champion.prompt.responses[1].choice = "UseWeaponAbility"

\* No weapon is in play and NoWeapon is offered all the same.
NoWeaponInPlay ==
    /\ game.data.raid # None
    /\ game.data.raid.phase.kind = "Encounter"
    /\ WeaponsInPlay = {}
    /\ game.champion.prompt.responses = <<NoWeapon>>

(***************************************************************************)
(* The accessed cards of a raid.                                           *)
(***************************************************************************)
\* The cards a prompt's score and destroy responses name, in prompt order.
PromptedCards(prompt) ==
    [k \in 1..(Len(prompt.responses) - 1) |-> prompt.responses[k].card_id]

\* The accessed cards the Champion can still score or destroy, in the
\* order of the accessed list.
OpenAccessed(g) ==
    SelectSeq(g.data.raid.accessed,
              LAMBDA id : \/ /\ get(card(g, id).name).card_type = "Scheme"
                             /\ ~in_score_pile(card(g, id).position)
                          \/ /\ get(card(g, id).name).card_type \in {"Project", "Upgrade"}
                             /\ in_play(card(g, id).position))

PromptHolder == IF game.data.raid.phase.kind = "Activation" THEN Overlord ELSE Champion

\* The step an accepted answer to the raid's prompt makes, told by the
\* record it leaves: the prompt holder's call, one of the offered responses.
AnswerPrompt ==
    /\ game.data.raid # None
    /\ player(game, PromptHolder).prompt # None
    /\ \E k \in 1..Len(player(game, PromptHolder).prompt.responses) :
            result' = [status |-> "Ok", side |-> PromptHolder,
                       action |-> player(game, PromptHolder).prompt.responses[k]]
    /\ before' = game

\* The games of SpecTrack that keep an update log.
InitLive == InitTrack /\ game.updates.some

SpecLive == InitLive /\ [][Next]_vars /\ WF_<<result, before>>(AnswerPrompt)

\* Where a raid stands: 0 in Activation, then 2n + 1 in Encounter(n) and
\* 2n + 2 in Continue(n), and past every defender in Access.
PhaseRank(phase) ==
    CASE phase.kind = "Activation" -> 0
      [] phase.kind = "Encounter" -> 2 * phase.index + 1
      [] phase.kind = "Continue" -> 2 * phase.index + 2
      [] phase.kind = "Access" -> 2 * MaxDefenders + 3

\* The accessed cards the Champion has scored in this raid.
ScoredOf(g) == {id \in AccessedSet(g) : in_score_pile(card(g, id).position)}

\* The response every prompt of the phase offers.
StandingResponse(phase) ==
    CASE phase.kind = "Activation" -> ActivateRoomAction("Pass")
      [] phase.kind = "Encounter" -> NoWeapon
      [] phase.kind = "Continue" -> ContinueAction("Retreat")
      [] phase.kind = "Access" -> EndRaid

\* While a raid is active its prompt can be answered.
AnswerOffered ==
    game.data.raid # None =>
        has_response(game, PromptHolder, StandingResponse(game.data.raid.phase))

\* A step taken during a raid is the prompt holder's accepted answer, one
\* of the responses the prompt offered; if the raid goes on, the step moved
\* it forward: out of Activation for good, to a later encounter or its
\* Continue phase, or, in Access, to one more scored card.
RaidAdvances ==
    game.data.raid # None =>
        /\ result'.status = "Ok"
        /\ result'.side = PromptHolder
        /\ has_response(game, result'.side, result'.action)
        /\ game'.data.raid # None =>
            /\ game'.data.raid.raid_id = game.data.raid.raid_id
            /\ \/ PhaseRank(game'.data.raid.phase) > PhaseRank(game.data.raid.phase)
               \/ /\ game.data.raid.phase = Access
                  /\ game'.data.raid.phase = Access
                  /\ result'.action.kind = "RaidScoreCard"
                  /\ result'.action.card_id \notin ScoredOf(game)
                  /\ ScoredOf(game') = ScoredOf(game) \cup {result'.action.card_id}

MoveGameReady ==
    populate_delegate_cache([MoveGame EXCEPT !.champion.actions = 1,
                                             !.champion.mana = 5,
                                             !.data.turn = Champion])

\* The game after the Champion's raid on the Vault was accepted.
MoveGameInRaid == handle_game_action(MoveGameReady, Champion, InitiateRaidAction("Vault")).game

InitMoveRaid ==
    /\ game \in {MoveGameReady, MoveGameInRaid}
    /\ result = NoResult
    /\ before = game
    /\ flag_init = FALSE
    /\ flag = FlagNew(FALSE)
    /\ history = <<>>

SpecMoveRaid == InitMoveRaid /\ [][MoveCard]_vars

\* The indices, in all_cards order, of the cards the latest call changed.
ChangedCards ==
    {i \in 1..Len(all_cards(before)) : all_cards(game)[i] # all_cards(before)[i]}

\* C37: a move_card call changes one card, and of that card only the
\* position and the sorting key, which becomes the next_sorting_key of
\* before the call; of the rest of the game it changes next_sorting_key
\* alone, by one, so both player records, the raid and every other card are
\* as they were; and after the call the moved card's key is greater than
\* the key of every other card of the game, so it is the last of its
\* position in key order.
MoveCardFrame ==
    history # <<>> =>
        /\ Cardinality(ChangedCards) = 1
        /\ \A i \in ChangedCards :
            /\ all_cards(game)[i] =
                    [all_cards(before)[i] EXCEPT !.position = all_cards(game)[i].position,
                                                 !.sorting_key = before.next_sorting_key]
            /\ \A j \in 1..Len(all_cards(game)) :
                    j # i => all_cards(game)[j].sorting_key < all_cards(game)[i].sorting_key
            /\ \A j \in 1..Len(all_cards(game)) :
                    all_cards(game)[j].position = all_cards(game)[i].position =>
                        all_cards(game)[j].sorting_key <= all_cards(game)[i].sorting_key
        /\ game.next_sorting_key = before.next_sorting_key + 1
        /\ game.overlord = before.overlord
        /\ game.champion = before.champion
        /\ game.data = before.data
        /\ game = [before EXCEPT !.overlord_cards = game.overlord_cards,
                                 !.champion_cards = game.champion_cards,
                                 !.next_sorting_key = game.next_sorting_key]

\* During a raid in Access an accessed card was moved to a position that
\* held a card already; the raid and the Champion's prompt are as before.
MovedDuringRaid ==
    /\ history # <<>>
    /\ game.data.raid # None
    /\ game.data.raid.phase = Access
    /\ game.champion.prompt # None
    /\ \E i \in ChangedCards :
        /\ all_cards(game)[i].id \in AccessedSet(game)
        /\ all_cards(game)[i].position # all_cards(before)[i].position
        /\ \E j \in 1..Len(all_cards(game)) :
            /\ j # i
            /\ all_cards(game)[j].position = all_cards(game)[i].position

(***************************************************************************)
(* SpecSwitch: the debug actions SwitchTurn and AddActionPoints            *)
(* (server/src/debug.rs) on a game with Dawn and Dusk delegates.           *)
(***************************************************************************)
\* DebugAction::SwitchTurn
switch_turn(g) ==
    start_turn(set_player(g, g.data.turn, [player(g, g.data.turn) EXCEPT !.actions = 0]),
               opponent(g.data.turn))

\* DebugAction::AddActionPoints
add_action_points(g, user_side, amount) ==
    set_player(g, user_side, [player(g, user_side) EXCEPT !.actions = @ + amount])

DebugCall(kind, side, amount) == [kind |-> kind, side |-> side, amount |-> amount]

\* A new game, created with or without an update log, with the Champion's
\* cards in hand so that their Dawn and Dusk delegates are in the cache.
SwitchGame(enable_animations) ==
    [dispatch_game(<<"TestDawnBounty", "TestDawnTax", "ShadowLurker">>,
                   <<"TestDawnEcho", "TestDuskShade">>, 4, Hand(Overlord))
        EXCEPT !.updates.some = enable_animations]

InitSwitch ==
    /\ \E enable_animations \in BOOLEAN : game = SwitchGame(enable_animations)
    /\ before = game
    /\ result = NoResult
    /\ flag_init = FALSE
    /\ flag = FlagNew(FALSE)
    /\ history = <<>>

SwitchTurn ==
    /\ Len(history) < MaxSwitches
    /\ game' = switch_turn(clear_trace(game))
    /\ before' = game
    /\ result' = [status |-> "Ok", side |-> NoSide, action |-> DebugCall("SwitchTurn", NoSide, 0)]
    /\ history' = Append(history, DebugCall("SwitchTurn", NoSide, 0))
    /\ UNCHANGED <<flag, flag_init>>

AddActionPoints ==
    /\ Len(history) < MaxSwitches
    /\ \E user_side \in Sides, amount \in {1, 2} :
        /\ game' = add_action_points(clear_trace(game), user_side, amount)
        /\ result' = [status |-> "Ok", side |-> user_side,
                      action |-> DebugCall("AddActionPoints", user_side, amount)]
        /\ history' = Append(history, DebugCall("AddActionPoints", user_side, amount))
    /\ before' = game
    /\ UNCHANGED <<flag, flag_init>>

NextSwitch == SwitchTurn \/ AddActionPoints

SpecSwitch == InitSwitch /\ [][NextSwitch]_vars

Switched == result # NoResult /\ result.action.kind = "SwitchTurn"

\* The game as the turn event of the latest SwitchTurn has to find it: the
\* outgoing side without action points, the turn handed over and counted,
\* and nothing else changed.
HandedOver ==
    LET outgoing == before.data.turn
        emptied == set_player(before, outgoing, [player(before, outgoing) EXCEPT !.actions = 0])
    IN  [emptied EXCEPT !.data.turn = opponent(outgoing),
                        !.data.turn_number = IF outgoing = Champion THEN @ + 1 ELSE @]

\* C39: after SwitchTurn the turn is the other side's and the outgoing side
\* has no action points; the turn number is one more when the new turn is
\* the Overlord's and the same when it is the Champion's; the first dispatch
\* of the call is Dusk (Overlord) or Dawn (Champion) with the new turn
\* number, and it starts on a game in which the turn is handed over while
\* the incoming side's action points are still what they were; afterwards
\* the incoming side has its start-of-turn action points; and with an update
\* log, the log is the old log extended, with StartTurn of the new side last.
SwitchTurnHandsOver ==
    Switched =>
        /\ game.data.turn = opponent(before.data.turn)
        /\ game.data.turn_number =
                before.data.turn_number + (IF game.data.turn = Overlord THEN 1 ELSE 0)
        /\ player(game, before.data.turn).actions = 0
        /\ player(game, game.data.turn).actions = 3
        /\ game.trace # <<>>
        /\ game.trace[1].type = "pass"
        /\ game.trace[1].kind = (IF game.data.turn = Overlord THEN "Dusk" ELSE "Dawn")
        /\ game.trace[1].data = game.data.turn_number
        /\ game.trace[1].pre = snapshot(HandedOver)
        /\ player(game.trace[1].pre, game.data.turn).actions =
                player(before, game.data.turn).actions
        /\ \A i \in 2..Len(game.trace) :
                game.trace[i].type = "pass" => game.trace[i].depth > 1
        /\ game.updates.some = before.updates.some
        /\ (~game.updates.some => game.updates.log = <<>>)
        /\ (game.updates.some =>
                /\ Len(game.updates.log) > Len(before.updates.log)
                /\ SubSeq(game.updates.log, 1, Len(before.updates.log)) = before.updates.log
                /\ game.updates.log[Len(game.updates.log)] = <<"StartTurn", game.data.turn>>
                /\ \A i \in (Len(before.updates.log) + 1)..(Len(game.updates.log) - 1) :
                        game.updates.log[i][1] # "StartTurn")

\* The turn passed to the Champion, who held one or two action points from
\* before: the Dawn delegates ran on a game that still showed them, and the
\* update log ends with the Champion's StartTurn.
SwitchedToChampionAtDawn ==
    /\ Switched
    /\ game.data.turn = Champion
    /\ before.champion.actions \in {1, 2}
    /\ before.overlord.actions > 0
    /\ game.updates.some
    /\ \E i \in 1..Len(game.trace) :
            /\ game.trace[i].type = "visit"
            /\ game.trace[i].pass = 1
            /\ game.trace[i].ran
            /\ game.trace[i].pre.champion.actions = before.champion.actions

\* The turn passed to the Overlord with the next turn number.
SwitchedToOverlordAtDusk ==
    /\ Switched
    /\ game.data.turn = Overlord
    /\ game.data.turn_number = 3
    /\ before.champion.actions > 0
    /\ game.trace[1].kind = "Dusk"

(***************************************************************************)
(* SpecDeck: the deck editor (deck_editor/src/deck_editor_actions.rs) on   *)
(* a player's adventure deck. In this specification `game` and `before`    *)
(* hold the PlayerData the handler is given.                               *)
(***************************************************************************)
\* HashMap<CardName, u32>: get, insert, remove.
cards_get(map, card_name) ==
    IF card_name \in DOMAIN map THEN Some(map[card_name]) ELSE None
cards_insert(map, card_name, count) ==
    [n \in DOMAIN map \cup {card_name} |-> IF n = card_name THEN count ELSE map[n]]
cards_remove(map, card_name) ==
    [n \in DOMAIN map \ {card_name} |-> map[n]]

ViewedPrompt == [kind |-> "ViewedPrompt"]
AddToDeck(card_name) == [kind |-> "AddToDeck", card_name |-> card_name]
RemoveFromDeck(card_name) == [kind |-> "RemoveFromDeck", card_name |-> card_name]

HandleOk(p) == [player |-> p, status |-> "Ok", error |-> ""]
HandleErr(p, error) == [player |-> p, status |-> "Err", error |-> error]

\* Mutant of handle: the last copy is stored with count 0, not removed.
handle_keeping_zero(p, action) ==
    CASE action.kind = "ViewedPrompt" ->
            HandleOk([p EXCEPT !.tutorial.seen = @ \cup {"DeckEditor"}])
      [] p.adventure = None -> HandleErr(p, "Expected active adventure")
      [] action.kind = "AddToDeck" ->
            LET deck_cards == p.adventure.deck.cards
                entry == cards_get(deck_cards, action.card_name)
            IN  HandleOk([p EXCEPT !.adventure.deck.cards =
                    cards_insert(deck_cards, action.card_name,
                                 IF entry = None THEN 1 ELSE entry.v + 1)])
      [] action.kind = "RemoveFromDeck" ->
            LET deck_cards == p.adventure.deck.cards
                entry == cards_get(deck_cards, action.card_name)
            IN  IF entry = None THEN HandleErr(p, "Card not present")
                ELSE IF entry.v = 0 THEN HandleErr(p, "Card count is zero")
                ELSE HandleOk([p EXCEPT !.adventure.deck.cards =
                        cards_insert(deck_cards, action.card_name, entry.v - 1)])

\* deck_editor_actions::handle. An Err leaves the player as it was: every
\* `?` and `fail!` comes before the first write.
handle(p, action) ==
    CASE action.kind = "ViewedPrompt" ->
            HandleOk([p EXCEPT !.tutorial.seen = @ \cup {"DeckEditor"}])
      [] p.adventure = None -> HandleErr(p, "Expected active adventure")
      [] action.kind = "AddToDeck" ->
            LET deck_cards == p.adventure.deck.cards
                entry == cards_get(deck_cards, action.card_name)
            IN  HandleOk([p EXCEPT !.adventure.deck.cards =
                    cards_insert(deck_cards, action.card_name,
                                 IF entry = None THEN 1 ELSE entry.v + 1)])
      [] action.kind = "RemoveFromDeck" ->
            LET deck_cards == p.adventure.deck.cards
                entry == cards_get(deck_cards, action.card_name)
            IN  IF entry = None THEN HandleErr(p, "Card not present")
                ELSE IF entry.v = 0 THEN HandleErr(p, "Card count is zero")
                ELSE IF entry.v = 1
                THEN HandleOk([p EXCEPT !.adventure.deck.cards =
                        cards_remove(deck_cards, action.card_name)])
                ELSE HandleOk([p EXCEPT !.adventure.deck.cards =
                        cards_insert(deck_cards, action.card_name, entry.v - 1)])

EditorCards == {"GoldMine", "TimeGolem", "Meditation"}

\* An excerpt of the Overlord starter deck (cards/src/decklists.rs).
StarterCards == [n \in {"GoldMine", "TimeGolem"} |-> IF n = "GoldMine" THEN 3 ELSE 1]

\* PlayerData::new, then with an adventure whose deck holds `cards`. The
\* field initial_cards is not part of the Rust struct: it remembers the deck
\* the adventure began with.
PlayerDataNew ==
    [adventure |-> None, tutorial |-> [seen |-> {}], initial_cards |-> <<>>]
PlayerInAdventure(deck_cards) ==
    [PlayerDataNew EXCEPT !.adventure = [deck |-> [cards |-> deck_cards]],
                          !.initial_cards = deck_cards]

InitDeck ==
    /\ game \in {PlayerDataNew, PlayerInAdventure(<<>>), PlayerInAdventure(StarterCards)}
    /\ before = game
    /\ result = NoResult
    /\ flag_init = FALSE
    /\ flag = FlagNew(FALSE)
    /\ history = <<>>

DeckEditorCall(action) ==
    /\ Len(history) < MaxEdits
    /\ game' = handle(game, action).player
    /\ result' = [status |-> handle(game, action).status, side |-> NoSide, action |-> action,
                  error |-> handle(game, action).error]
    /\ before' = game
    /\ history' = Append(history, [action |-> action, status |-> handle(game, action).status])
    /\ UNCHANGED <<flag, flag_init>>

ViewedPromptCall == DeckEditorCall(ViewedPrompt)
AddToDeckCall == \E card_name \in EditorCards : DeckEditorCall(AddToDeck(card_name))
RemoveFromDeckCall == \E card_name \in EditorCards : DeckEditorCall(RemoveFromDeck(card_name))

NextDeck == ViewedPromptCall \/ AddToDeckCall \/ RemoveFromDeckCall

SpecDeck == InitDeck /\ [][NextDeck]_vars

\* The number of copies of a card in a deck map, 0 for a card without entry.
Copies(deck_cards, card_name) ==
    IF card_name \in DOMAIN deck_cards THEN deck_cards[card_name] ELSE 0

\* The accepted calls of one kind for one card so far.
Accepted(kind, card_name) ==
    Cardinality({i \in 1..Len(history) :
        /\ history[i].status = "Ok"
        /\ history[i].action = [kind |-> kind, card_name |-> card_name]})

DeckCards(p) == p.adventure.deck.cards

\* C40: in an adventure every entry of the deck map has a count of at least
\* 1, and each card's count (0 without entry) is the count the adventure
\* began with plus its accepted AddToDeck calls minus its accepted
\* RemoveFromDeck calls; AddToDeck is always accepted and adds one copy of
\* its card only; RemoveFromDeck of a card without entry fails with the deck
\* unchanged, of a card with one copy deletes the entry, otherwise takes one
\* copy; a RemoveFromDeck that follows the AddToDeck of the same card leaves
\* the deck it was before the two; and a failed call changes nothing.
DeckCountsPositive ==
    /\ (game.adventure = None) = (before.adventure = None)
    /\ game.adventure # None =>
        /\ \A n \in DOMAIN DeckCards(game) : DeckCards(game)[n] >= 1
        /\ \A n \in EditorCards :
                Copies(DeckCards(game), n) =
                    Copies(game.initial_cards, n) + Accepted("AddToDeck", n)
                                                  - Accepted("RemoveFromDeck", n)
        /\ DOMAIN DeckCards(game) \subseteq EditorCards
    /\ (result # NoResult /\ result.status = "Err") => game = before
    /\ (result # NoResult /\ game.adventure = None /\ result.action # ViewedPrompt) =>
            result.status = "Err"
    /\ (result # NoResult /\ game.adventure # None /\ result.action.kind = "AddToDeck") =>
            /\ result.status = "Ok"
            /\ DeckCards(game) = cards_insert(DeckCards(before), result.action.card_name,
                    Copies(DeckCards(before), result.action.card_name) + 1)
    /\ (result # NoResult /\ game.adventure # None /\ result.action.kind = "RemoveFromDeck") =>
            LET n == result.action.card_name
            IN  /\ (n \notin DOMAIN DeckCards(before)) =>
                        (result.status = "Err" /\ result.error = "Card not present")
                /\ (n \in DOMAIN DeckCards(before)) =>
                        /\ result.status = "Ok"
                        /\ n \in DOMAIN DeckCards(game) <=> DeckCards(before)[n] > 1
                        /\ \A m \in DOMAIN DeckCards(before) \ {n} :
                                /\ m \in DOMAIN DeckCards(game)
                                /\ DeckCards(game)[m] = DeckCards(before)[m]
                        /\ DOMAIN DeckCards(game) \subseteq DOMAIN DeckCards(before)
    /\ \A n \in EditorCards :
            game.adventure # None =>
                handle(handle(game, AddToDeck(n)).player, RemoveFromDeck(n)) = HandleOk(game)

\* The only copy of a card was removed: the entry is gone and a further
\* RemoveFromDeck of the card fails.
LastCopyRemoved ==
    /\ result # NoResult
    /\ result.status = "Ok"
    /\ result.action.kind = "RemoveFromDeck"
    /\ before.adventure # None
    /\ Copies(DeckCards(before), result.action.card_name) = 1
    /\ result.action.card_name \notin DOMAIN DeckCards(game)
    /\ DeckCards(game) # <<>>
    /\ handle(game, result.action).status = "Err"

\* A RemoveFromDeck of a card without entry was refused.
AbsentCardRefused ==
    /\ result # NoResult
    /\ result.status = "Err"
    /\ result.error = "Card not present"
    /\ Len(history) >= 2
    /\ history[Len(history) - 1].action.kind = "AddToDeck"
====
